---- MODULE Spec2Model ----
(***************************************************************************)
(* Model of pykanban's Board Manager (KanbanDatabaseManager) over the      *)
(* single SQLite table Columns.  A row of the table is a record            *)
(*   [id, Name, Order, ColumnColor, TextColor, deletion_date]              *)
(* (Number is always 0 and creation_date is never read, so both are left   *)
(* out).  Every Board Manager call runs one transaction: it either commits *)
(* the new table or rolls back to the table it started from.               *)
(*                                                                         *)
(* Five specifications share the variables:                                *)
(*   Spec         the Board Manager's callers, each call taken whole and   *)
(*                without driver faults;                                   *)
(*   SpecStorage  a caller driving the Storage Manager (SQLiteManager)     *)
(*                method by method;                                        *)
(*   SpecFault    the Board Manager's callers, each call run step by step  *)
(*                over the Storage Manager with the driver failing at a    *)
(*                chosen step;                                             *)
(*   SpecUI       the desktop application's menu and board handlers over   *)
(*                database files on disk;                                  *)
(*   SpecDrag     a drag session over the board's column container.        *)
(***************************************************************************)
EXTENDS Integers, Sequences, FiniteSets, TLC

VARIABLES schema, table, flow, res, pre, con, ext, ui

vars == <<schema, table, flow, res, pre, con, ext, ui>>

\* ---------------------------------------------------------------- bounds
MaxRows == 5
MaxOrder == 5

\* ------------------------------------------------------------- constants
NULL == "NULL"
CURRENT_TIMESTAMP == "CURRENT_TIMESTAMP"
DefaultColumnColor == "#b8daff"
DefaultTextColor == "#000000"
Sentinels == {"Ready to Start", "Complete"}

\* inputs the callers may pass
Names == {"Ready to Start", "Complete", "In Progress", "Review", "Testing"}
FlowNames == Names \cup {""}
NewOrders == 1..MaxOrder
Colors == {"#ff0000"}
ColorNames == {"In Progress"}
ColorTypes == {"ColumnColor", "TextColor", "Number"}
ScanOrders == {"rowid", "index"}

\* ------------------------------------------------------- table utilities
Active(t) == {r \in t : r.deletion_date = NULL}

RowsNamed(t, name) == {r \in t : r.Name = name}

Orders(t) == {r.Order : r \in t}

SetMax(S) == CHOOSE m \in S : \A x \in S : x <= m

\* id INTEGER PRIMARY KEY AUTOINCREMENT
NextId(t) == IF t = {} THEN 1 ELSE SetMax({r.id : r \in t}) + 1

\* QueryResult(success, data, message), with the table the call leaves behind
Result(success, data, message, rows) ==
    [success |-> success, data |-> data, message |-> message, rows |-> rows]

NoSuchTable(t) == Result(FALSE, 0, "no such table: Columns", t)

\* the rows of S as a sequence in ascending key ("id" or "Order")
RECURSIVE ScanSeq(_, _)
ScanSeq(S, key) ==
    IF S = {} THEN <<>>
    ELSE LET k(r) == IF key = "rowid" THEN r.id ELSE r.Order
             m == CHOOSE r \in S : \A x \in S : k(r) <= k(x)
         IN <<m.id>> \o ScanSeq(S \ {m}, key)

\* faulty variant: "Order" is not declared UNIQUE
UpdateOrderRows_nocheck(t, scan, newOrd) ==
    [ok |-> TRUE,
     rows |-> {IF r.id \in DOMAIN newOrd THEN [r EXCEPT !.Order = newOrd[r.id]]
               ELSE r : r \in t}]

\* UPDATE ... SET "Order" = newOrd: SQLite rewrites the rows one at a time in
\* scan order and checks "Order" UNIQUE (over all rows) at each row; the
\* first conflict aborts the statement.
RECURSIVE UpdateOrderRows(_, _, _)
UpdateOrderRows(t, scan, newOrd) ==
    IF scan = <<>> THEN [ok |-> TRUE, rows |-> t]
    ELSE LET i == Head(scan)
             r == CHOOSE x \in t : x.id = i
         IN IF \E x \in t : x.id # i /\ x.Order = newOrd[i]
            THEN [ok |-> FALSE, rows |-> t]
            ELSE UpdateOrderRows((t \ {r}) \cup {[r EXCEPT !.Order = newOrd[i]]},
                                 Tail(scan), newOrd)

\* faulty variant: the index idx_active_column_names is missing
ExecInsert_noindex(t, name, order, column_color, text_color) ==
    IF \E r \in t : r.Order = order
    THEN [ok |-> FALSE, rows |-> t, message |-> "UNIQUE constraint failed: Columns.Order"]
    ELSE [ok |-> TRUE, message |-> "",
          rows |-> t \cup {[id |-> NextId(t), Name |-> name, Order |-> order,
                            ColumnColor |-> column_color, TextColor |-> text_color,
                            deletion_date |-> NULL]}]

\* INSERT INTO Columns (Name, "Order", Number, ColumnColor, TextColor):
\* "Order" UNIQUE and the partial unique index idx_active_column_names
ExecInsert(t, name, order, column_color, text_color) ==
    IF \E r \in t : r.Order = order
    THEN [ok |-> FALSE, rows |-> t, message |-> "UNIQUE constraint failed: Columns.Order"]
    ELSE IF \E r \in Active(t) : r.Name = name
    THEN [ok |-> FALSE, rows |-> t, message |-> "UNIQUE constraint failed: Columns.Name"]
    ELSE [ok |-> TRUE, message |-> "",
          rows |-> t \cup {[id |-> NextId(t), Name |-> name, Order |-> order,
                            ColumnColor |-> column_color, TextColor |-> text_color,
                            deletion_date |-> NULL]}]

\* ------------------------------------------------- Board Manager methods
\* faulty variant: "Complete" seeded one place too far right
default_columns_gap ==
    <<[Name |-> "Ready to Start", Order |-> 1],
      [Name |-> "In Progress", Order |-> 2],
      [Name |-> "Complete", Order |-> 4]>>

default_columns ==
    <<[Name |-> "Ready to Start", Order |-> 1],
      [Name |-> "In Progress", Order |-> 2],
      [Name |-> "Complete", Order |-> 3]>>

RECURSIVE InsertAll(_, _)
InsertAll(t, cols) ==
    IF cols = <<>> THEN [ok |-> TRUE, rows |-> t, message |-> ""]
    ELSE LET ins == ExecInsert(t, Head(cols).Name, Head(cols).Order,
                               DefaultColumnColor, DefaultTextColor)
         IN IF ins.ok THEN InsertAll(ins.rows, Tail(cols)) ELSE ins

initialize_database(hasTable, t) ==
    IF hasTable
    THEN Result(FALSE, 0, "table Columns already exists", t)
    ELSE LET ins == InsertAll({}, default_columns)
         IN IF ins.ok
            THEN Result(TRUE, 0, "Kanban database schema created successfully", ins.rows)
            ELSE Result(FALSE, 0, ins.message, t)

add_column(hasTable, t, name, order, column_color, text_color) ==
    IF name = "" THEN Result(FALSE, 0, "Column name cannot be empty", t)
    ELSE IF ~hasTable THEN NoSuchTable(t)
    ELSE LET ins == ExecInsert(t, name, order, column_color, text_color)
         IN IF ins.ok
            THEN Result(TRUE, 0, "Column created successfully", ins.rows)
            ELSE Result(FALSE, 0, ins.message, t)

\* faulty variant: the upper bound new_order >= max_order is not validated
reorder_column_noupper(hasTable, t, column_name, new_order) ==
    IF column_name \in Sentinels
    THEN Result(FALSE, 0, "Cannot reorder fixed column", t)
    ELSE IF ~hasTable THEN NoSuchTable(t)
    ELSE IF new_order <= 1
    THEN Result(FALSE, 0,
                "Cannot move column before 'Ready to Start' or after 'Complete'", t)
    ELSE LET hit == RowsNamed(t, column_name)
             upd == UpdateOrderRows(t, ScanSeq(hit, "rowid"),
                                    [i \in {r.id : r \in hit} |-> new_order])
         IN IF upd.ok
            THEN Result(TRUE, 0, "Column reordered successfully", upd.rows)
            ELSE Result(FALSE, 0, "UNIQUE constraint failed: Columns.Order", t)

\* faulty variant: new_order is not validated at all
reorder_column_nobounds(hasTable, t, column_name, new_order) ==
    IF column_name \in Sentinels
    THEN Result(FALSE, 0, "Cannot reorder fixed column", t)
    ELSE IF ~hasTable THEN NoSuchTable(t)
    ELSE LET hit == RowsNamed(t, column_name)
             upd == UpdateOrderRows(t, ScanSeq(hit, "rowid"),
                                    [i \in {r.id : r \in hit} |-> new_order])
         IN IF upd.ok
            THEN Result(TRUE, 0, "Column reordered successfully", upd.rows)
            ELSE Result(FALSE, 0, "UNIQUE constraint failed: Columns.Order", t)

reorder_column(hasTable, t, column_name, new_order) ==
    IF column_name \in Sentinels
    THEN Result(FALSE, 0, "Cannot reorder fixed column", t)
    ELSE IF ~hasTable THEN NoSuchTable(t)
    ELSE LET max_order == SetMax(Orders(t) \cup {0})
         IN IF new_order <= 1 \/ new_order >= max_order
            THEN Result(FALSE, 0,
                        "Cannot move column before 'Ready to Start' or after 'Complete'", t)
            ELSE LET hit == RowsNamed(t, column_name)
                     upd == UpdateOrderRows(t, ScanSeq(hit, "rowid"),
                                            [i \in {r.id : r \in hit} |-> new_order])
                 IN IF upd.ok
                    THEN Result(TRUE, 0, "Column reordered successfully", upd.rows)
                    ELSE Result(FALSE, 0, "UNIQUE constraint failed: Columns.Order", t)

\* the names of the active columns, ORDER BY "Order"
RECURSIVE NamesByOrder(_)
NamesByOrder(S) ==
    IF S = {} THEN <<>>
    ELSE LET m == CHOOSE r \in S : \A x \in S : r.Order <= x.Order
         IN <<m.Name>> \o NamesByOrder(S \ {m})

\* faulty variant: ORDER BY id instead of ORDER BY "Order"
RECURSIVE NamesById(_)
NamesById(S) ==
    IF S = {} THEN <<>>
    ELSE LET m == CHOOSE r \in S : \A x \in S : r.id <= x.id
         IN <<m.Name>> \o NamesById(S \ {m})

load_columns_byid(t) == NamesById(Active(t))

load_columns(t) == NamesByOrder(Active(t))

update_column_color(hasTable, t, column_name, color_type, color) ==
    IF color_type \notin {"ColumnColor", "TextColor"}
    THEN Result(FALSE, 0, "Invalid color type specified", t)
    ELSE IF ~hasTable THEN NoSuchTable(t)
    ELSE Result(TRUE, 0, "Column color updated successfully",
                {IF r.Name = column_name
                 THEN (IF color_type = "ColumnColor"
                       THEN [r EXCEPT !.ColumnColor = color]
                       ELSE [r EXCEPT !.TextColor = color])
                 ELSE r : r \in t})

\* faulty variant: returns the order left of the vacated one
get_order_for_new_column_below(hasTable, t) ==
    IF ~hasTable THEN NoSuchTable(t)
    ELSE LET found == {r \in Active(t) : r.Name = "Complete"}
         IN IF found = {} THEN Result(FALSE, 0, "Complete column not found", t)
            ELSE LET complete_order == (CHOOSE r \in found : TRUE).Order
                     hit == RowsNamed(t, "Complete")
                     upd == UpdateOrderRows(t, ScanSeq(hit, "rowid"),
                                [i \in {r.id : r \in hit} |->
                                    (CHOOSE r \in hit : r.id = i).Order + 1])
                 IN IF upd.ok
                    THEN Result(TRUE, complete_order - 1,
                                "Order value retrieved successfully", upd.rows)
                    ELSE Result(FALSE, 0, "UNIQUE constraint failed: Columns.Order", t)

\* faulty variant: "Complete" is moved two places instead of one
get_order_for_new_column_plus2(hasTable, t) ==
    IF ~hasTable THEN NoSuchTable(t)
    ELSE LET found == {r \in Active(t) : r.Name = "Complete"}
         IN IF found = {} THEN Result(FALSE, 0, "Complete column not found", t)
            ELSE LET complete_order == (CHOOSE r \in found : TRUE).Order
                     hit == RowsNamed(t, "Complete")
                     upd == UpdateOrderRows(t, ScanSeq(hit, "rowid"),
                                [i \in {r.id : r \in hit} |->
                                    (CHOOSE r \in hit : r.id = i).Order + 2])
                 IN IF upd.ok
                    THEN Result(TRUE, complete_order,
                                "Order value retrieved successfully", upd.rows)
                    ELSE Result(FALSE, 0, "UNIQUE constraint failed: Columns.Order", t)

get_order_for_new_column(hasTable, t) ==
    IF ~hasTable THEN NoSuchTable(t)
    ELSE LET found == {r \in Active(t) : r.Name = "Complete"}
         IN IF found = {} THEN Result(FALSE, 0, "Complete column not found", t)
            ELSE LET complete_order == (CHOOSE r \in found : TRUE).Order
                     hit == RowsNamed(t, "Complete")
                     upd == UpdateOrderRows(t, ScanSeq(hit, "rowid"),
                                [i \in {r.id : r \in hit} |->
                                    (CHOOSE r \in hit : r.id = i).Order + 1])
                 IN IF upd.ok
                    THEN Result(TRUE, complete_order,
                                "Order value retrieved successfully", upd.rows)
                    ELSE Result(FALSE, 0, "UNIQUE constraint failed: Columns.Order", t)

\* UPDATE Columns SET deletion_date = CURRENT_TIMESTAMP
\* WHERE Name = ? AND deletion_date IS NULL
MarkDeleted(t, column_name) ==
    {IF r.Name = column_name /\ r.deletion_date = NULL
     THEN [r EXCEPT !.deletion_date = CURRENT_TIMESTAMP]
     ELSE r : r \in t}

\* faulty variant: the decrement does not exclude 'Complete'
ReorderRemaining_all(t, current_order, scan) ==
    LET hit == {r \in Active(t) : r.Order > current_order}
    IN UpdateOrderRows(t, ScanSeq(hit, scan),
                       [i \in {r.id : r \in hit} |->
                           (CHOOSE r \in hit : r.id = i).Order - 1])

\* UPDATE Columns SET "Order" = "Order" - 1
\* WHERE "Order" > ? AND deletion_date IS NULL AND Name != 'Complete'
ReorderRemaining(t, current_order, scan) ==
    LET hit == {r \in Active(t) : r.Order > current_order /\ r.Name # "Complete"}
    IN UpdateOrderRows(t, ScanSeq(hit, scan),
                       [i \in {r.id : r \in hit} |->
                           (CHOOSE r \in hit : r.id = i).Order - 1])

\* faulty variant: the fixed columns are not rejected
soft_delete_column_noguard(hasTable, t, column_name, scan) ==
    IF ~hasTable THEN NoSuchTable(t)
    ELSE LET found == {r \in Active(t) : r.Name = column_name}
         IN IF found = {} THEN Result(FALSE, 0, "Column not found", t)
            ELSE LET current_order == (CHOOSE r \in found : TRUE).Order
                     upd == ReorderRemaining(MarkDeleted(t, column_name),
                                             current_order, scan)
                 IN IF upd.ok
                    THEN Result(TRUE, 0, "Column deleted successfully", upd.rows)
                    ELSE Result(FALSE, 0, "UNIQUE constraint failed: Columns.Order", t)

\* faulty variant: DELETE FROM Columns instead of setting deletion_date
soft_delete_column_hard(hasTable, t, column_name, scan) ==
    IF column_name \in Sentinels
    THEN Result(FALSE, 0, "Cannot delete fixed columns", t)
    ELSE IF ~hasTable THEN NoSuchTable(t)
    ELSE LET found == {r \in Active(t) : r.Name = column_name}
         IN IF found = {} THEN Result(FALSE, 0, "Column not found", t)
            ELSE LET current_order == (CHOOSE r \in found : TRUE).Order
                     upd == ReorderRemaining(t \ found, current_order, scan)
                 IN IF upd.ok
                    THEN Result(TRUE, 0, "Column deleted successfully", upd.rows)
                    ELSE Result(FALSE, 0, "UNIQUE constraint failed: Columns.Order", t)

\* faulty variant: a name without an active row is reported as deleted
soft_delete_column_lenient(hasTable, t, column_name, scan) ==
    IF column_name \in Sentinels
    THEN Result(FALSE, 0, "Cannot delete fixed columns", t)
    ELSE IF ~hasTable THEN NoSuchTable(t)
    ELSE LET found == {r \in Active(t) : r.Name = column_name}
         IN IF found = {} THEN Result(TRUE, 0, "Column deleted successfully", t)
            ELSE LET current_order == (CHOOSE r \in found : TRUE).Order
                     upd == ReorderRemaining(MarkDeleted(t, column_name),
                                             current_order, scan)
                 IN IF upd.ok
                    THEN Result(TRUE, 0, "Column deleted successfully", upd.rows)
                    ELSE Result(FALSE, 0, "UNIQUE constraint failed: Columns.Order", t)

soft_delete_column(hasTable, t, column_name, scan) ==
    IF column_name \in Sentinels
    THEN Result(FALSE, 0, "Cannot delete fixed columns", t)
    ELSE IF ~hasTable THEN NoSuchTable(t)
    ELSE LET found == {r \in Active(t) : r.Name = column_name}
         IN IF found = {} THEN Result(FALSE, 0, "Column not found", t)
            ELSE LET current_order == (CHOOSE r \in found : TRUE).Order
                     upd == ReorderRemaining(MarkDeleted(t, column_name),
                                             current_order, scan)
                 IN IF upd.ok
                    THEN Result(TRUE, 0, "Column deleted successfully", upd.rows)
                    ELSE Result(FALSE, 0, "UNIQUE constraint failed: Columns.Order", t)

\* ----------------------------------------------------------- the machine
\* schema: the Columns table and its index exist;  table: the committed rows;
\* flow: position inside create_col (between its two Board Manager calls);
\* res: the last call and the QueryResult it returned;
\* pre: the committed rows when the last caller-level operation began
\*      (for add_column that is the start of its create_col).
\* con: the SQLiteManager connection (isOpen, a transaction is active, and the
\*      uncommitted content the transaction sees);
\* ext: more about the last call: the DatabaseStatus it returned, whether an
\*      exception escaped it, how many statements it ran, the statement
\*      passed to it, the step at which the driver failed, and the
\*      connection and schema it started from.
Idle == [pc |-> "idle", column_name |-> "", new_order |-> 0]

Closed == [isOpen |-> FALSE, inTx |-> FALSE, wschema |-> FALSE, wrows |-> {}]

NoStmt == [kind |-> "NONE", name |-> "", order |-> 0, column_color |-> "",
           text_color |-> "", color_type |-> "", color |-> "",
           scan |-> "rowid"]

NoExt == [status |-> "NONE", raised |-> FALSE, n |-> 0, stmt |-> NoStmt,
          fault |-> "none", preSchema |-> FALSE, preCon |-> Closed]

\* ------------------------------------------------------- the UI's state
\* ui: the desktop application around the Board Manager:
\*   files            the database files on disk, by path (schema, rows);
\*   made             how many KanbanDatabaseManager objects were constructed;
\*   kanban_db        the controller's manager;
\*   db_manager       the tab manager's manager (its column container holds
\*                    the same one);
\*   column_layout    the column widgets on the board, left to right;
\*   column_order, dragged_column, original_column_order, column_positions
\*                    the column container's drag bookkeeping;
\*   drag             a drag session is over the container;
\*   at_enter         column_order when the session's dragEnterEvent ran;
\*   moved            a dragMoveEvent of the session changed column_order;
\*   op, ok, raised   the last handler, whether it reported success, and
\*                    whether an exception escaped it.
Paths == {"a.db", "b.db"}

\* Python's None, for a manager and for a column name
None == [id |-> 0, db_path |-> ""]

NoName == "None"

\* an empty dict
EmptyDict == [n \in {} |-> 0]

\* the attribute original_column_order does not exist yet
Absent == [has |-> FALSE, dict |-> EmptyDict]

NoFile == [schema |-> FALSE, rows |-> {}]

NoUI ==
    [files |-> [p \in Paths |-> NoFile], made |-> 0, kanban_db |-> None,
     db_manager |-> None, column_layout |-> <<>>, column_order |-> EmptyDict,
     dragged_column |-> NoName, original_column_order |-> Absent,
     column_positions |-> <<>>, drag |-> FALSE, at_enter |-> EmptyDict,
     moved |-> FALSE,
     op |-> "none", ok |-> FALSE, raised |-> FALSE]

Call(op, name, order, r) ==
    [op |-> op, name |-> name, order |-> order, success |-> r.success,
     data |-> r.data, message |-> r.message]

Init ==
    /\ schema = FALSE
    /\ table = {}
    /\ flow = Idle
    /\ res = [op |-> "none", name |-> "", order |-> 0, success |-> FALSE,
              data |-> 0, message |-> ""]
    /\ pre = {}
    /\ con = Closed
    /\ ext = NoExt
    /\ ui = NoUI

InitializeDatabase ==
    /\ flow.pc = "idle"
    /\ LET r == initialize_database(schema, table)
       IN /\ schema' = (schema \/ r.success)
          /\ table' = r.rows
          /\ res' = Call("initialize_database", "", 0, r)
    /\ pre' = table
    /\ UNCHANGED <<flow, con, ext, ui>>

\* create_col, first half: the dialog's name is known, the order is fetched
GetOrderForNewColumn(name) ==
    /\ flow.pc = "idle"
    /\ Cardinality(table) < MaxRows
    /\ \A r \in table : r.Order < MaxOrder
    /\ LET r == get_order_for_new_column(schema, table)
       IN /\ table' = r.rows
          /\ res' = Call("get_order_for_new_column", name, 0, r)
          /\ flow' = IF r.success
                     THEN [pc |-> "add_column", column_name |-> name,
                           new_order |-> r.data]
                     ELSE Idle
    /\ pre' = table
    /\ UNCHANGED <<schema, con, ext, ui>>

\* create_col, second half: add_column(name, order = the returned order)
AddColumn ==
    /\ flow.pc = "add_column"
    /\ LET r == add_column(schema, table, flow.column_name, flow.new_order,
                           DefaultColumnColor, DefaultTextColor)
       IN /\ table' = r.rows
          /\ res' = Call("add_column", flow.column_name, flow.new_order, r)
    /\ flow' = Idle
    /\ UNCHANGED <<schema, pre, con, ext, ui>>

ReorderColumn(name, new_order) ==
    /\ flow.pc = "idle"
    /\ LET r == reorder_column(schema, table, name, new_order)
       IN /\ table' = r.rows
          /\ res' = Call("reorder_column", name, new_order, r)
    /\ pre' = table
    /\ UNCHANGED <<schema, flow, con, ext, ui>>

SoftDeleteColumn(name, scan) ==
    /\ flow.pc = "idle"
    /\ LET r == soft_delete_column(schema, table, name, scan)
       IN /\ table' = r.rows
          /\ res' = Call("soft_delete_column", name, 0, r)
    /\ pre' = table
    /\ UNCHANGED <<schema, flow, con, ext, ui>>

UpdateColumnColor(name, color_type, color) ==
    /\ flow.pc = "idle"
    /\ LET r == update_column_color(schema, table, name, color_type, color)
       IN /\ table' = r.rows
          /\ res' = Call("update_column_color", name, 0, r)
    /\ pre' = table
    /\ UNCHANGED <<schema, flow, con, ext, ui>>

Next ==
    \/ InitializeDatabase
    \/ \E name \in FlowNames : GetOrderForNewColumn(name)
    \/ AddColumn
    \/ \E name \in Names, o \in NewOrders : ReorderColumn(name, o)
    \/ \E name \in Names, scan \in ScanOrders : SoftDeleteColumn(name, scan)
    \/ \E name \in ColorNames, ct \in ColorTypes, c \in Colors :
          UpdateColumnColor(name, ct, c)

Spec == Init /\ [][Next]_vars

TypeOK ==
    /\ schema \in BOOLEAN
    /\ \A r \in table : r.id \in 1..MaxRows /\ r.Order \in 1..MaxOrder
    /\ Cardinality(table) <= MaxRows

\* ------------------------------------------------------------ properties
CompleteOrder(t) == (CHOOSE r \in Active(t) : r.Name = "Complete").Order

HasActive(t, name) == \E r \in Active(t) : r.Name = name

FreshRows == initialize_database(FALSE, {}).rows

\* C1: whenever no create-column flow is in progress, the Order values of
\* the active columns are exactly 1..n for n active columns.
C1_ContiguousOrders ==
    (schema /\ flow.pc = "idle") =>
        Orders(Active(table)) = 1..Cardinality(Active(table))

\* C2: soft_delete_column of an active non-sentinel column succeeds, the
\* column is no longer loaded, and every other active column keeps its Order
\* unless it was to the right of the deleted one and is not "Complete", in
\* which case its Order is lowered by exactly 1.
C2_SoftDeleteShifts ==
    (res.op = "soft_delete_column" /\ res.name \notin Sentinels
        /\ HasActive(pre, res.name)) =>
        LET c == CHOOSE r \in Active(pre) : r.Name = res.name
        IN /\ res.success
           /\ \A i \in DOMAIN load_columns(table) : load_columns(table)[i] # res.name
           /\ \A r \in Active(pre) \ {c} :
                \E q \in Active(table) :
                    /\ q.id = r.id
                    /\ q.Order = IF r.Order > c.Order /\ r.Name # "Complete"
                                 THEN r.Order - 1 ELSE r.Order

\* C3 (as stated): a successful get_order_for_new_column returns a value
\* strictly less than the Order "Complete" had before the call.
C3_ReturnsBelowPreOrder ==
    (res.op = "get_order_for_new_column" /\ res.success) =>
        res.data < CompleteOrder(pre)

\* C3 (amended): a successful get_order_for_new_column returns exactly the
\* Order "Complete" had before the call, which is strictly less than the
\* Order "Complete" has after the call.
C3_ReturnsVacatedOrder ==
    (res.op = "get_order_for_new_column" /\ res.success) =>
        /\ res.data = CompleteOrder(pre)
        /\ res.data < CompleteOrder(table)

C3_Witness ==
    /\ res.op = "get_order_for_new_column" /\ res.success
    /\ CompleteOrder(pre) = 4 /\ res.data = 4

\* C4: after a successful get_order_for_new_column the Order of "Complete"
\* is exactly one greater than before the call.
C4_CompleteRaisedByOne ==
    (res.op = "get_order_for_new_column" /\ res.success) =>
        CompleteOrder(table) = CompleteOrder(pre) + 1

C4_Witness ==
    /\ res.op = "get_order_for_new_column" /\ res.success
    /\ CompleteOrder(pre) = 3 /\ CompleteOrder(table) = 4

\* C5: when a create-column flow ends, either the new column is stored at
\* the vacated Order or "Complete" has the Order it had before the flow.
C5_FlowConsistent ==
    (res.op = "add_column") =>
        \/ /\ res.success
           /\ \E r \in Active(table) : r.Name = res.name /\ r.Order = res.order
        \/ CompleteOrder(table) = CompleteOrder(pre)

\* C6: after a successful create-column flow for X, load_columns() has X
\* exactly once, immediately before "Complete", with the columns that were
\* active before the flow in their former relative order; on a freshly
\* initialized database and X = "Review" the result is
\* [Ready to Start, In Progress, Review, Complete].
C6_NewColumnBeforeComplete ==
    (res.op = "add_column" /\ res.success) =>
        LET L == load_columns(table)
            B == load_columns(pre)
            n == Len(B)
        IN /\ Len(L) = n + 1
           /\ B[n] = "Complete"
           /\ \A i \in 1..(n - 1) : L[i] = B[i]
           /\ L[n] = res.name
           /\ L[n + 1] = "Complete"
           /\ Cardinality({i \in 1..(n + 1) : L[i] = res.name}) = 1
           /\ (pre = FreshRows /\ res.name = "Review") =>
                L = <<"Ready to Start", "In Progress", "Review", "Complete">>

C6_Witness ==
    /\ res.op = "add_column" /\ res.success /\ res.name = "Review"
    /\ pre = FreshRows
    /\ load_columns(table) = <<"Ready to Start", "In Progress", "Review", "Complete">>

\* C7: once the database is initialized, "Ready to Start" is active with
\* Order 1, the minimum, and "Complete" is active with an Order strictly
\* greater than that of every other active column.
C7_SentinelsAtTheEnds ==
    schema =>
        /\ \E r \in Active(table) : r.Name = "Ready to Start" /\ r.Order = 1
        /\ \A r \in Active(table) : r.Order >= 1
        /\ HasActive(table, "Complete")
        /\ \A r \in Active(table) :
              r.Name # "Complete" => r.Order < CompleteOrder(table)

C7_Witness ==
    /\ res.op = "reorder_column" /\ res.success
    /\ \E r \in table : r.deletion_date # NULL
    /\ \E r \in Active(table) : r.Name = res.name /\ r.Order = CompleteOrder(table) - 1
    /\ Cardinality(Active(table)) = 4

\* C8: reorder_column and soft_delete_column called with "Ready to Start" or
\* "Complete" return success = False and leave every row unchanged.
C8_SentinelsRejected ==
    (res.op \in {"reorder_column", "soft_delete_column"} /\ res.name \in Sentinels) =>
        ~res.success /\ table = pre

C8_Witness ==
    /\ res.op = "soft_delete_column" /\ res.name = "Complete" /\ ~res.success
    /\ schema
    /\ \A r \in Active(table) : r.Name \in Sentinels

\* C9: no call removes a row: every row present before the last operation
\* is still in the table, and after a successful soft_delete_column the
\* deleted column's row is in the table with a non-null deletion_date.
C9_RowsNeverRemoved ==
    /\ \A r \in pre : \E q \in table : q.id = r.id /\ q.Name = r.Name
    /\ (res.op = "soft_delete_column" /\ res.success) =>
          \A r \in Active(pre) :
              r.Name = res.name =>
                  \E q \in table : q.id = r.id /\ q.deletion_date # NULL

C9_Witness ==
    /\ res.op = "soft_delete_column" /\ res.success
    /\ \E r \in table : r.Name = res.name /\ r.deletion_date # NULL
    /\ Cardinality(table) = Cardinality(pre)

\* C10: after a successful initialize_database exactly three columns exist,
\* "Ready to Start", "In Progress" and "Complete" with Order 1, 2 and 3, all
\* active, and there is no soft-deleted row.
C10_ThreeDefaultColumns ==
    (res.op = "initialize_database" /\ res.success) =>
        /\ Cardinality(table) = 3
        /\ Active(table) = table
        /\ {<<r.Name, r.Order>> : r \in table} =
              {<<"Ready to Start", 1>>, <<"In Progress", 2>>, <<"Complete", 3>>}

C10_Witness ==
    /\ res.op = "initialize_database" /\ res.success
    /\ pre = {} /\ Cardinality(Active(table)) = 3

\* C14: reorder_column(name, new_order) returns success = False and changes
\* no row whenever new_order <= 1 or new_order >= the maximum Order in the
\* table.
C14_ReorderOutOfBoundsRejected ==
    (res.op = "reorder_column" /\ schema
        /\ (res.order <= 1 \/ res.order >= SetMax(Orders(pre)))) =>
        ~res.success /\ table = pre

C14_Witness ==
    /\ res.op = "reorder_column" /\ res.name = "In Progress" /\ ~res.success
    /\ HasActive(pre, "In Progress")
    /\ res.order > SetMax(Orders(pre))
    /\ table = pre

\* ========================================================================
\* The Storage Manager (SQLiteManager) in detail: one QSqlDatabase
\* connection over the database file.  A database D is a record
\*   [isOpen, inTx, schema, rows, wschema, wrows]
\* schema/rows are the committed content of the file (schema = the Columns
\* table exists; its index is created and committed together with it) and
\* wschema/wrows the content seen inside the active transaction.
\* ========================================================================
DB(s, t, c) ==
    [isOpen |-> c.isOpen, inTx |-> c.inTx, schema |-> s, rows |-> t,
     wschema |-> c.wschema, wrows |-> c.wrows]

ConOf(D) ==
    [isOpen |-> D.isOpen, inTx |-> D.inTx, wschema |-> D.wschema,
     wrows |-> D.wrows]

\* class DatabaseStatus(Enum)
DatabaseStatus == {"OPEN", "CLOSED", "ERROR"}

\* QueryResult(success, data, message) of a Storage Manager call, with the
\* value its cursor yields (count = the number of rows it returns), the
\* database the call leaves behind and the number of statements it ran
SResult(success, data, message, D, n) ==
    [success |-> success, data |-> data, message |-> message,
     value |-> 0, count |-> 0, db |-> D, n |-> n]

\* a SQL statement with its bound parameters
Stmt(kind, name, order) ==
    [NoStmt EXCEPT !.kind = kind, !.name = name, !.order = order]

\* INSERT INTO Columns (Name, "Order", Number, ColumnColor, TextColor)
\* VALUES (?, ?, 0, ?, ?) with its four parameters
insert_query(name, order, column_color, text_color) ==
    [Stmt("INSERT", name, order) EXCEPT !.column_color = column_color,
                                        !.text_color = text_color]

\* what a statement reads: the transaction's content, else the committed one
ViewSchema(D) == IF D.inTx THEN D.wschema ELSE D.schema

ViewRows(D) == IF D.inTx THEN D.wrows ELSE D.rows

\* what a statement writes: inside a transaction its working content,
\* outside one SQLite commits each statement by itself (autocommit)
Apply(D, s, t) ==
    IF D.inTx THEN [D EXCEPT !.wschema = s, !.wrows = t]
    ELSE [D EXCEPT !.schema = s, !.rows = t]

EndTx(D) == [D EXCEPT !.inTx = FALSE, !.wschema = FALSE, !.wrows = {}]

\* q.exec() of one statement on content (hasTable, t): a failing statement
\* changes nothing
ExecOk(hasTable, t, value, count) ==
    [ok |-> TRUE, schema |-> hasTable, rows |-> t, value |-> value,
     count |-> count, message |-> ""]

ExecFail(hasTable, t, message) ==
    [ok |-> FALSE, schema |-> hasTable, rows |-> t, value |-> 0, count |-> 0,
     message |-> message]

Exec(stmt, hasTable, t) ==
    IF stmt.kind = "INVALID" THEN ExecFail(hasTable, t, "syntax error")
    ELSE IF stmt.kind = "CREATE_TABLE"
    THEN (IF hasTable THEN ExecFail(hasTable, t, "table Columns already exists")
          ELSE ExecOk(TRUE, {}, 0, 0))
    ELSE IF ~hasTable THEN ExecFail(hasTable, t, "no such table: Columns")
    ELSE IF stmt.kind = "CREATE_INDEX" THEN ExecOk(hasTable, t, 0, 0)
    ELSE IF stmt.kind = "INSERT"
    THEN LET ins == ExecInsert(t, stmt.name, stmt.order, stmt.column_color,
                               stmt.text_color)
         IN IF ins.ok THEN ExecOk(hasTable, ins.rows, 0, 0)
            ELSE ExecFail(hasTable, t, ins.message)
    ELSE IF stmt.kind = "LAST_ID"
    THEN ExecOk(hasTable, t, NextId(t) - 1, 1)
    ELSE IF stmt.kind = "MAX_ORDER"
    THEN ExecOk(hasTable, t, SetMax(Orders(t) \cup {0}), 1)
    ELSE IF stmt.kind = "MAX_ACTIVE_ORDER"
    THEN ExecOk(hasTable, t, SetMax(Orders(Active(t)) \cup {0}), 1)
    ELSE IF stmt.kind = "SELECT_ACTIVE"
    THEN ExecOk(hasTable, t, load_columns(t), Cardinality(Active(t)))
    ELSE IF stmt.kind = "FIND_ORDER"
    THEN LET found == {r \in Active(t) : r.Name = stmt.name}
         IN IF found = {} THEN ExecOk(hasTable, t, 0, 0)
            ELSE ExecOk(hasTable, t, (CHOOSE r \in found : TRUE).Order, 1)
    ELSE IF stmt.kind = "UPDATE_ORDER"
    THEN LET hit == RowsNamed(t, stmt.name)
             upd == UpdateOrderRows(t, ScanSeq(hit, "rowid"),
                                    [i \in {r.id : r \in hit} |-> stmt.order])
         IN IF upd.ok THEN ExecOk(hasTable, upd.rows, 0, 0)
            ELSE ExecFail(hasTable, t, "UNIQUE constraint failed: Columns.Order")
    ELSE IF stmt.kind = "INCREMENT"
    THEN LET hit == RowsNamed(t, stmt.name)
             upd == UpdateOrderRows(t, ScanSeq(hit, "rowid"),
                        [i \in {r.id : r \in hit} |->
                            (CHOOSE r \in hit : r.id = i).Order + 1])
         IN IF upd.ok THEN ExecOk(hasTable, upd.rows, 0, 0)
            ELSE ExecFail(hasTable, t, "UNIQUE constraint failed: Columns.Order")
    ELSE IF stmt.kind = "UPDATE_COLOR"
    THEN ExecOk(hasTable,
                {IF r.Name = stmt.name
                 THEN (IF stmt.color_type = "ColumnColor"
                       THEN [r EXCEPT !.ColumnColor = stmt.color]
                       ELSE [r EXCEPT !.TextColor = stmt.color])
                 ELSE r : r \in t}, 0, 0)
    ELSE IF stmt.kind = "MARK_DELETED"
    THEN ExecOk(hasTable, MarkDeleted(t, stmt.name), 0, 0)
    ELSE IF stmt.kind = "DECREMENT"
    THEN LET upd == ReorderRemaining(t, stmt.order, stmt.scan)
         IN IF upd.ok THEN ExecOk(hasTable, upd.rows, 0, 0)
            ELSE ExecFail(hasTable, t, "UNIQUE constraint failed: Columns.Order")
    ELSE ExecFail(hasTable, t, "syntax error")

\* canOpen: whether the driver can open (or create) the database file
open_db(D, canOpen) ==
    IF D.isOpen THEN SResult(FALSE, "OPEN", "database is already open", D, 0)
    ELSE IF ~canOpen
    THEN SResult(FALSE, "ERROR", "database does not exist", D, 0)
    ELSE SResult(TRUE, "OPEN", "database successfully opened",
                 [D EXCEPT !.isOpen = TRUE], 0)

\* faulty variant: reports success but leaves the connection open
close_db_leak(D) ==
    IF ~D.isOpen THEN SResult(FALSE, "CLOSED", "database is not open", D, 0)
    ELSE SResult(TRUE, "CLOSED", "database successfully closed", D, 0)

\* closing the connection discards a transaction that was not committed
close_db(D) ==
    IF ~D.isOpen THEN SResult(FALSE, "CLOSED", "database is not open", D, 0)
    ELSE SResult(TRUE, "CLOSED", "database successfully closed",
                 [EndTx(D) EXCEPT !.isOpen = FALSE], 0)

\* con.transaction() fails inside a transaction, or when the driver
\* reports an error (driverOk = FALSE)
begin_transaction(D, driverOk) ==
    IF ~D.isOpen THEN SResult(FALSE, "CLOSED", "database not open", D, 0)
    ELSE IF D.inTx \/ ~driverOk
    THEN SResult(FALSE, "ERROR", "Failed to start transaction", D, 0)
    ELSE SResult(TRUE, "OPEN", "Transaction started",
                 [D EXCEPT !.inTx = TRUE, !.wschema = D.schema,
                           !.wrows = D.rows], 0)

\* con.commit() fails outside a transaction, or when the driver reports
\* an error; a failed commit leaves the transaction active
commit_transaction(D, driverOk) ==
    IF ~D.isOpen THEN SResult(FALSE, "CLOSED", "database not open", D, 0)
    ELSE IF ~D.inTx \/ ~driverOk
    THEN SResult(FALSE, "ERROR", "Failed to commit transaction", D, 0)
    ELSE SResult(TRUE, "OPEN", "Transaction committed",
                 EndTx([D EXCEPT !.schema = D.wschema, !.rows = D.wrows]), 0)

rollback_transaction(D) ==
    IF ~D.isOpen THEN SResult(FALSE, "CLOSED", "database not open", D, 0)
    ELSE IF ~D.inTx
    THEN SResult(FALSE, "ERROR", "Failed to rollback transaction", D, 0)
    ELSE SResult(TRUE, "OPEN", "Transaction rolled back", EndTx(D), 0)

\* faulty variant: a closed connection is not rejected
execute_query_nocheck(D, stmt, driverOk) ==
    LET e == Exec(stmt, ViewSchema(D), ViewRows(D))
    IN IF ~driverOk THEN SResult(FALSE, "ERROR", "disk I/O error", D, 1)
       ELSE IF ~e.ok THEN SResult(FALSE, "ERROR", e.message, D, 1)
       ELSE [SResult(TRUE, "q", "Query executed successfully",
                     Apply(D, e.schema, e.rows), 1)
             EXCEPT !.value = e.value, !.count = e.count]

\* faulty variant: a statement outside a transaction is rejected
execute_query_txcheck(D, stmt, driverOk) ==
    IF ~D.isOpen THEN SResult(FALSE, "CLOSED", "database not open", D, 0)
    ELSE IF ~D.inTx THEN SResult(FALSE, "ERROR", "no transaction", D, 0)
    ELSE LET e == Exec(stmt, ViewSchema(D), ViewRows(D))
         IN IF ~driverOk THEN SResult(FALSE, "ERROR", "disk I/O error", D, 1)
            ELSE IF ~e.ok THEN SResult(FALSE, "ERROR", e.message, D, 1)
            ELSE [SResult(TRUE, "q", "Query executed successfully",
                          Apply(D, e.schema, e.rows), 1)
                  EXCEPT !.value = e.value, !.count = e.count]

\* the statement is run whenever the connection is open, inside a
\* transaction or not; on success data is the cursor q
execute_query(D, stmt, driverOk) ==
    IF ~D.isOpen THEN SResult(FALSE, "CLOSED", "database not open", D, 0)
    ELSE LET e == Exec(stmt, ViewSchema(D), ViewRows(D))
         IN IF ~driverOk THEN SResult(FALSE, "ERROR", "disk I/O error", D, 1)
            ELSE IF ~e.ok THEN SResult(FALSE, "ERROR", e.message, D, 1)
            ELSE [SResult(TRUE, "q", "Query executed successfully",
                          Apply(D, e.schema, e.rows), 1)
                  EXCEPT !.value = e.value, !.count = e.count]

\* fault: the step at which the driver reports an error, if any
StorageFaults == {"none", "begin", "exec", "commit"}

\* faulty variant: a failed statement is not rolled back
safe_execute_query_norollback(D, stmt, fault) ==
    LET begin_result == begin_transaction(D, fault # "begin")
    IN IF ~begin_result.success THEN begin_result
       ELSE LET query_result == execute_query(begin_result.db, stmt,
                                              fault # "exec")
            IN IF ~query_result.success
               THEN query_result
               ELSE LET commit_result == commit_transaction(query_result.db,
                                                fault # "commit")
                    IN IF ~commit_result.success
                       THEN [commit_result EXCEPT
                               !.db = rollback_transaction(commit_result.db).db,
                               !.n = 1]
                       ELSE [query_result EXCEPT !.db = commit_result.db]

\* faulty variant: the executed statement is never committed
safe_execute_query_nocommit(D, stmt, fault) ==
    LET begin_result == begin_transaction(D, fault # "begin")
    IN IF ~begin_result.success THEN begin_result
       ELSE LET query_result == execute_query(begin_result.db, stmt,
                                              fault # "exec")
            IN [query_result EXCEPT
                  !.db = rollback_transaction(query_result.db).db]

safe_execute_query(D, stmt, fault) ==
    LET begin_result == begin_transaction(D, fault # "begin")
    IN IF ~begin_result.success THEN begin_result
       ELSE LET query_result == execute_query(begin_result.db, stmt,
                                              fault # "exec")
            IN IF ~query_result.success
               THEN [query_result EXCEPT
                       !.db = rollback_transaction(query_result.db).db]
               ELSE LET commit_result == commit_transaction(query_result.db,
                                                fault # "commit")
                    IN IF ~commit_result.success
                       THEN [commit_result EXCEPT
                               !.db = rollback_transaction(commit_result.db).db,
                               !.n = 1]
                       ELSE [query_result EXCEPT !.db = commit_result.db]

\* PRAGMA table_info(table_name): data is the column dictionary
table_schema(D, table_name) ==
    IF ~D.isOpen THEN SResult(FALSE, "CLOSED", "database is not open", D, 0)
    ELSE IF table_name = "Columns" /\ ViewSchema(D)
    THEN SResult(TRUE, "dict", "queried for schema", D, 1)
    ELSE SResult(FALSE, "ERROR", "Table not found", D, 1)

\* SELECT name FROM sqlite_master, then one PRAGMA table_info per table
db_schema(D) ==
    IF ~D.isOpen THEN SResult(FALSE, "CLOSED", "database is not open", D, 0)
    ELSE SResult(TRUE, "dict", "database schema queried", D,
                 IF ViewSchema(D) THEN 2 ELSE 1)

\* CREATE TABLE table_name (column_names[i] data_types[i], ...)
create_table(D, table_name, column_names, data_types) ==
    IF ~D.isOpen THEN SResult(FALSE, "CLOSED", "database is not open", D, 0)
    ELSE IF Len(column_names) # Len(data_types)
    THEN SResult(FALSE, "ERROR",
                 "Column names and data types lists must be of same length", D, 0)
    ELSE LET e == Exec(Stmt("CREATE_TABLE", table_name, 0), ViewSchema(D),
                       ViewRows(D))
         IN IF ~e.ok
            THEN SResult(FALSE, "ERROR", "Failed to create table", D, 1)
            ELSE SResult(TRUE, "OPEN", "Table successfully created",
                         Apply(D, e.schema, e.rows), 1)

table_exists(D, table_name) ==
    IF ~D.isOpen THEN SResult(FALSE, "CLOSED", "database is not open", D, 0)
    ELSE IF table_name = "Columns" /\ ViewSchema(D)
    THEN SResult(TRUE, "OPEN", "Table exists", D, 1)
    ELSE SResult(FALSE, "ERROR", "Table does not exist", D, 1)

\* ------------------------------------------- the Storage Manager machine
\* A caller drives one SQLiteManager directly, as src/tests/db_test.py does.
StorageStmts ==
    {Stmt("CREATE_TABLE", "Columns", 0),
     insert_query("Review", 1, DefaultColumnColor, DefaultTextColor),
     insert_query("Testing", 2, DefaultColumnColor, DefaultTextColor),
     insert_query("Testing", 1, DefaultColumnColor, DefaultTextColor),
     Stmt("SELECT_ACTIVE", "", 0),
     Stmt("INVALID", "", 0)}

TableNames == {"Columns", "nonexistent_table"}

ColumnLists == {<<"id", "Name">>, <<"id">>}

StorageCall(op, stmt, fault, r) ==
    /\ schema' = r.db.schema
    /\ table' = r.db.rows
    /\ con' = ConOf(r.db)
    /\ res' = [op |-> op, name |-> stmt.name, order |-> stmt.order,
               success |-> r.success, data |-> 0, message |-> r.message]
    /\ ext' = [status |-> r.data, raised |-> FALSE, n |-> r.n, stmt |-> stmt,
               fault |-> fault, preSchema |-> schema, preCon |-> con]
    /\ pre' = table

OpenDb(canOpen) ==
    /\ StorageCall("open_db", NoStmt, IF canOpen THEN "none" ELSE "open",
                   open_db(DB(schema, table, con), canOpen))
    /\ UNCHANGED <<flow, ui>>

CloseDb ==
    /\ StorageCall("close_db", NoStmt, "none", close_db(DB(schema, table, con)))
    /\ UNCHANGED <<flow, ui>>

BeginTransaction(driverOk) ==
    /\ StorageCall("begin_transaction", NoStmt,
                   IF driverOk THEN "none" ELSE "begin",
                   begin_transaction(DB(schema, table, con), driverOk))
    /\ UNCHANGED <<flow, ui>>

CommitTransaction(driverOk) ==
    /\ StorageCall("commit_transaction", NoStmt,
                   IF driverOk THEN "none" ELSE "commit",
                   commit_transaction(DB(schema, table, con), driverOk))
    /\ UNCHANGED <<flow, ui>>

RollbackTransaction ==
    /\ StorageCall("rollback_transaction", NoStmt, "none",
                   rollback_transaction(DB(schema, table, con)))
    /\ UNCHANGED <<flow, ui>>

ExecuteQuery(stmt, driverOk) ==
    /\ StorageCall("execute_query", stmt, IF driverOk THEN "none" ELSE "exec",
                   execute_query(DB(schema, table, con), stmt, driverOk))
    /\ UNCHANGED <<flow, ui>>

SafeExecuteQuery(stmt, fault) ==
    /\ StorageCall("safe_execute_query", stmt, fault,
                   safe_execute_query(DB(schema, table, con), stmt, fault))
    /\ UNCHANGED <<flow, ui>>

TableSchema(table_name) ==
    /\ StorageCall("table_schema", Stmt("NONE", table_name, 0), "none",
                   table_schema(DB(schema, table, con), table_name))
    /\ UNCHANGED <<flow, ui>>

DbSchema ==
    /\ StorageCall("db_schema", NoStmt, "none", db_schema(DB(schema, table, con)))
    /\ UNCHANGED <<flow, ui>>

CreateTable(table_name, column_names, data_types) ==
    /\ StorageCall("create_table", Stmt("NONE", table_name, 0), "none",
                   create_table(DB(schema, table, con), table_name, column_names,
                                data_types))
    /\ UNCHANGED <<flow, ui>>

TableExists(table_name) ==
    /\ StorageCall("table_exists", Stmt("NONE", table_name, 0), "none",
                   table_exists(DB(schema, table, con), table_name))
    /\ UNCHANGED <<flow, ui>>

NextStorage ==
    \/ \E canOpen \in BOOLEAN : OpenDb(canOpen)
    \/ CloseDb
    \/ \E driverOk \in BOOLEAN : BeginTransaction(driverOk)
    \/ \E driverOk \in BOOLEAN : CommitTransaction(driverOk)
    \/ RollbackTransaction
    \/ \E stmt \in StorageStmts, driverOk \in BOOLEAN :
          ExecuteQuery(stmt, driverOk)
    \/ \E stmt \in StorageStmts, fault \in StorageFaults :
          SafeExecuteQuery(stmt, fault)
    \/ \E n \in TableNames : TableSchema(n)
    \/ DbSchema
    \/ \E cols \in ColumnLists, types \in ColumnLists :
          CreateTable("Columns", cols, types)
    \/ \E n \in TableNames : TableExists(n)

SpecStorage == Init /\ [][NextStorage]_vars

\* ---------------------------------------- Storage Manager properties
LastOp(ops) == res.op \in ops

ContentUnchanged == schema = ext.preSchema /\ table = pre

\* C15 as stated: open_db on an open connection fails and leaves it open;
\* close_db on a connection that is not open fails and leaves it closed;
\* open_db on a closed connection succeeds with status OPEN and close_db on
\* an open one succeeds with status CLOSED.
C15_OpenCloseAlwaysSucceed ==
    /\ (LastOp({"open_db"}) /\ ext.preCon.isOpen) =>
          ~res.success /\ con.isOpen
    /\ (LastOp({"close_db"}) /\ ~ext.preCon.isOpen) =>
          ~res.success /\ ~con.isOpen
    /\ (LastOp({"open_db"}) /\ ~ext.preCon.isOpen) =>
          res.success /\ ext.status = "OPEN" /\ con.isOpen
    /\ (LastOp({"close_db"}) /\ ext.preCon.isOpen) =>
          res.success /\ ext.status = "CLOSED" /\ ~con.isOpen

\* C15 amended: as above, except that open_db on a closed connection
\* succeeds with status OPEN only when the driver can open the database
\* file; when it cannot, open_db returns failure with status ERROR and the
\* connection stays closed.
C15_OpenCloseStateMachine ==
    /\ (LastOp({"open_db"}) /\ ext.preCon.isOpen) =>
          ~res.success /\ con.isOpen
    /\ (LastOp({"close_db"}) /\ ~ext.preCon.isOpen) =>
          ~res.success /\ ~con.isOpen
    /\ (LastOp({"open_db"}) /\ ~ext.preCon.isOpen /\ ext.fault # "open") =>
          res.success /\ ext.status = "OPEN" /\ con.isOpen
    /\ (LastOp({"open_db"}) /\ ~ext.preCon.isOpen /\ ext.fault = "open") =>
          ~res.success /\ ext.status = "ERROR" /\ ~con.isOpen
    /\ (LastOp({"close_db"}) /\ ext.preCon.isOpen) =>
          res.success /\ ext.status = "CLOSED" /\ ~con.isOpen
    /\ LastOp({"open_db", "close_db"}) => ContentUnchanged

\* a re-open: rows exist, so the connection was open and closed before
C15_Witness ==
    /\ LastOp({"open_db"}) /\ res.success /\ con.isOpen
    /\ ~ext.preCon.isOpen /\ table # {}

\* C17 as stated: on return from any safe_execute_query call no transaction
\* is open on the connection and at most one statement was executed.
C17_NeverLeavesTransaction ==
    LastOp({"safe_execute_query"}) => ~con.inTx /\ ext.n <= 1

\* C17 amended: on return from a safe_execute_query call made while no
\* transaction was open, no transaction is open and at most one statement
\* was executed; a call made inside an open transaction fails at begin,
\* executes nothing and leaves that transaction open as it was.
C17_LeavesNoTransactionOfItsOwn ==
    /\ (LastOp({"safe_execute_query"}) /\ ~ext.preCon.inTx) =>
          ~con.inTx /\ ext.n <= 1
    /\ (LastOp({"safe_execute_query"}) /\ ext.preCon.inTx) =>
          ~res.success /\ ext.n = 0 /\ con = ext.preCon /\ ContentUnchanged

C17_Witness ==
    /\ LastOp({"safe_execute_query"}) /\ ext.preCon.isOpen
    /\ ~ext.preCon.inTx /\ ext.stmt.kind = "INVALID" /\ ~res.success
    /\ ext.n = 1 /\ ~con.inTx

\* C18: safe_execute_query on an open connection is all-or-nothing: on
\* success the statement's effect is committed and is what every later
\* query reads; on failure it returns status ERROR and the database content
\* is exactly what it was before the call.
C18_SafeExecuteAllOrNothing ==
    (LastOp({"safe_execute_query"}) /\ ext.preCon.isOpen) =>
        IF res.success
        THEN LET e == Exec(ext.stmt, ext.preSchema, pre)
             IN /\ e.ok /\ schema = e.schema /\ table = e.rows
                /\ ViewSchema(DB(schema, table, con)) = schema
                /\ ViewRows(DB(schema, table, con)) = table
        ELSE ext.status = "ERROR" /\ ContentUnchanged

C18_Witness ==
    /\ LastOp({"safe_execute_query"}) /\ res.success
    /\ ext.stmt.kind = "INSERT" /\ table # pre /\ Cardinality(table) = 2

C20_ClosedConnectionRejects ==
    (LastOp({"execute_query", "begin_transaction", "commit_transaction",
             "rollback_transaction", "create_table", "table_exists",
             "table_schema", "db_schema"}) /\ ~ext.preCon.isOpen) =>
        /\ ~res.success /\ ext.status = "CLOSED" /\ ~ext.raised
        /\ ext.n = 0 /\ ContentUnchanged /\ con = ext.preCon

C20_Witness ==
    /\ LastOp({"execute_query"}) /\ ~ext.preCon.isOpen /\ ~res.success
    /\ ext.stmt.kind = "INSERT" /\ schema /\ table = {}

\* ========================================================================
\* The Board Manager step by step over the Storage Manager, with the
\* driver failing at one chosen step of the call: opening the connection,
\* begin, the k-th execute_query, or commit.
\* ========================================================================
BoardFaults ==
    {"none", "open", "begin", "exec1", "exec2", "exec3", "exec4", "exec5",
     "commit"}

ExecFault(k) == <<"exec1", "exec2", "exec3", "exec4", "exec5">>[k]

\* QueryResult(success, data, message) returned by a Board Manager method,
\* with the database it leaves behind; status is the DatabaseStatus tag when
\* a Storage Manager result is returned as it is
BResult(success, data, message, D) ==
    [success |-> success, data |-> data, status |-> "NONE",
     message |-> message, db |-> D, raised |-> FALSE]

\* return <storage result>
BReturn(r) ==
    [success |-> r.success, data |-> 0, status |-> r.data,
     message |-> r.message, db |-> r.db, raised |-> FALSE]

\* db.rollback_transaction(); return <storage result>
RollbackAndReturn(r) ==
    BReturn([r EXCEPT !.db = rollback_transaction(r.db).db])

\* db.rollback_transaction(); return QueryResult(False, None, message)
RollbackAndFail(D, message) ==
    BResult(FALSE, 0, message, rollback_transaction(D).db)

\* commit_result = db.commit_transaction(); on failure roll back and return
\* it, else return QueryResult(True, data, message)
CommitAndReturn(D, fault, data, message) ==
    LET commit_result == commit_transaction(D, fault # "commit")
    IN IF ~commit_result.success THEN RollbackAndReturn(commit_result)
       ELSE BResult(TRUE, data, message, commit_result.db)

\* yield self: the manager handed to the body of the with statement
Yielded(D) == open_db(D, TRUE).db

\* faulty variant: the connection is closed only when the body succeeded
connection_leak(D, canOpen, r) ==
    LET success == open_db(D, canOpen)
    IN IF ~success.success
       THEN [BResult(FALSE, 0, success.message, D) EXCEPT !.raised = TRUE]
       ELSE IF r.success THEN [r EXCEPT !.db = close_db(r.db).db] ELSE r

\* with self.db_manager.connection() as db: <body>, where r is what the
\* body returns.  A failed open_db raises out of the with statement, which
\* stands outside every method's try block, and the body is not run;
\* otherwise the finally clause closes the connection on exit.
connection(D, canOpen, r) ==
    LET success == open_db(D, canOpen)
    IN IF ~success.success
       THEN [BResult(FALSE, 0, success.message, D) EXCEPT !.raised = TRUE]
       ELSE [r EXCEPT !.db = close_db(r.db).db]

\* for name, order, column_color, text_color in default_columns: the k-th
\* execute_query of initialize_database onwards
RECURSIVE InsertDefaults(_, _, _, _)
InsertDefaults(D, cols, k, fault) ==
    IF cols = <<>> THEN SResult(TRUE, "q", "", D, 0)
    ELSE LET column_result ==
                 execute_query(D, insert_query(Head(cols).Name, Head(cols).Order,
                                   DefaultColumnColor, DefaultTextColor),
                               fault # ExecFault(k))
         IN IF ~column_result.success THEN column_result
            ELSE InsertDefaults(column_result.db, Tail(cols), k + 1, fault)

\* faulty variant: the schema is created outside the transaction
initialize_database_steps_notx(D, fault) ==
    connection(D, fault # "open", LET db == Yielded(D) IN
      LET table_result == execute_query(db, Stmt("CREATE_TABLE", "Columns", 0),
                                        fault # "exec1")
      IN IF ~table_result.success THEN BReturn(table_result)
         ELSE
      LET index_result == execute_query(table_result.db,
                              Stmt("CREATE_INDEX", "Columns", 0), fault # "exec2")
      IN IF ~index_result.success THEN BReturn(index_result)
         ELSE
      LET begin_result == begin_transaction(index_result.db, fault # "begin")
      IN IF ~begin_result.success THEN BReturn(begin_result)
         ELSE
      LET column_result == InsertDefaults(begin_result.db, default_columns, 3,
                                          fault)
      IN IF ~column_result.success THEN RollbackAndReturn(column_result)
         ELSE CommitAndReturn(column_result.db, fault, 0,
                              "Kanban database schema created successfully"))

initialize_database_steps(D, fault) ==
    connection(D, fault # "open", LET db == Yielded(D) IN
      LET begin_result == begin_transaction(db, fault # "begin")
      IN IF ~begin_result.success THEN BReturn(begin_result)
         ELSE
      LET table_result == execute_query(begin_result.db,
                              Stmt("CREATE_TABLE", "Columns", 0), fault # "exec1")
      IN IF ~table_result.success THEN RollbackAndReturn(table_result)
         ELSE
      LET index_result == execute_query(table_result.db,
                              Stmt("CREATE_INDEX", "Columns", 0), fault # "exec2")
      IN IF ~index_result.success THEN RollbackAndReturn(index_result)
         ELSE
      LET column_result == InsertDefaults(index_result.db, default_columns, 3,
                                          fault)
      IN IF ~column_result.success THEN RollbackAndReturn(column_result)
         ELSE CommitAndReturn(column_result.db, fault, 0,
                              "Kanban database schema created successfully"))

\* a failure of the id query is ignored
add_column_steps(D, name, order, column_color, text_color, fault) ==
    IF name = "" THEN BResult(FALSE, 0, "Column name cannot be empty", D)
    ELSE connection(D, fault # "open", LET db == Yielded(D) IN
      LET begin_result == begin_transaction(db, fault # "begin")
      IN IF ~begin_result.success THEN BReturn(begin_result)
         ELSE
      LET query_result == execute_query(begin_result.db,
                              insert_query(name, order, column_color, text_color),
                              fault # "exec1")
      IN IF ~query_result.success THEN RollbackAndReturn(query_result)
         ELSE
      LET id_result == execute_query(query_result.db, Stmt("LAST_ID", "", 0),
                                     fault # "exec2")
      IN CommitAndReturn(id_result.db, fault, 0, "Column created successfully"))

\* max_order is NULL for an empty table: the comparison raises and the
\* except clause rolls back and returns a failure
reorder_column_steps(D, column_name, new_order, fault) ==
    IF column_name \in Sentinels
    THEN BResult(FALSE, 0, "Cannot reorder fixed column", D)
    ELSE connection(D, fault # "open", LET db == Yielded(D) IN
      LET begin_result == begin_transaction(db, fault # "begin")
      IN IF ~begin_result.success THEN BReturn(begin_result)
         ELSE
      LET query_result == execute_query(begin_result.db,
                              Stmt("MAX_ORDER", "", 0), fault # "exec1")
      IN IF ~query_result.success THEN RollbackAndReturn(query_result)
         ELSE
      LET max_order == query_result.value
      IN IF ViewRows(query_result.db) = {}
         THEN RollbackAndFail(query_result.db, "Failed to reorder column")
         ELSE IF new_order <= 1 \/ new_order >= max_order
         THEN RollbackAndFail(query_result.db,
                "Cannot move column before 'Ready to Start' or after 'Complete'")
         ELSE
      LET update_result == execute_query(query_result.db,
                               Stmt("UPDATE_ORDER", column_name, new_order),
                               fault # "exec2")
      IN IF ~update_result.success THEN RollbackAndReturn(update_result)
         ELSE CommitAndReturn(update_result.db, fault, 0,
                              "Column reordered successfully"))

\* no transaction is begun: the SELECT runs in autocommit
load_columns_steps(D, fault) ==
    connection(D, fault # "open", LET db == Yielded(D) IN
      LET result == execute_query(db, Stmt("SELECT_ACTIVE", "", 0),
                                  fault # "exec1")
      IN IF ~result.success THEN BReturn(result)
         ELSE BResult(TRUE, result.value, "Columns loaded successfully",
                      result.db))

\* faulty variant: the update is committed by itself, before the commit step
update_column_color_steps_early(D, column_name, color_type, color, fault) ==
    IF color_type \notin {"ColumnColor", "TextColor"}
    THEN BResult(FALSE, 0, "Invalid color type specified", D)
    ELSE connection(D, fault # "open", LET db == Yielded(D) IN
      LET query_result == execute_query(db,
                              [Stmt("UPDATE_COLOR", column_name, 0) EXCEPT
                                  !.color_type = color_type, !.color = color],
                              fault # "exec1")
      IN IF ~query_result.success THEN BReturn(query_result)
         ELSE
      LET begin_result == begin_transaction(query_result.db, fault # "begin")
      IN IF ~begin_result.success THEN BReturn(begin_result)
         ELSE CommitAndReturn(begin_result.db, fault, 0,
                              "Column color updated successfully"))

\* faulty variant: the color type is validated inside the with block
update_column_color_steps_late(D, column_name, color_type, color, fault) ==
    connection(D, fault # "open", LET db == Yielded(D) IN
      IF color_type \notin {"ColumnColor", "TextColor"}
      THEN BResult(FALSE, 0, "Invalid color type specified", db)
      ELSE
      LET begin_result == begin_transaction(db, fault # "begin")
      IN IF ~begin_result.success THEN BReturn(begin_result)
         ELSE
      LET query_result == execute_query(begin_result.db,
                              [Stmt("UPDATE_COLOR", column_name, 0) EXCEPT
                                  !.color_type = color_type, !.color = color],
                              fault # "exec1")
      IN IF ~query_result.success THEN RollbackAndReturn(query_result)
         ELSE CommitAndReturn(query_result.db, fault, 0,
                              "Column color updated successfully"))

update_column_color_steps(D, column_name, color_type, color, fault) ==
    IF color_type \notin {"ColumnColor", "TextColor"}
    THEN BResult(FALSE, 0, "Invalid color type specified", D)
    ELSE connection(D, fault # "open", LET db == Yielded(D) IN
      LET begin_result == begin_transaction(db, fault # "begin")
      IN IF ~begin_result.success THEN BReturn(begin_result)
         ELSE
      LET query_result == execute_query(begin_result.db,
                              [Stmt("UPDATE_COLOR", column_name, 0) EXCEPT
                                  !.color_type = color_type, !.color = color],
                              fault # "exec1")
      IN IF ~query_result.success THEN RollbackAndReturn(query_result)
         ELSE CommitAndReturn(query_result.db, fault, 0,
                              "Column color updated successfully"))

\* no transaction is begun; max_order is 0 when no active column exists
get_max_order_steps(D, fault) ==
    connection(D, fault # "open", LET db == Yielded(D) IN
      LET result == execute_query(db, Stmt("MAX_ACTIVE_ORDER", "", 0),
                                  fault # "exec1")
      IN IF ~result.success THEN BReturn(result)
         ELSE BResult(TRUE, result.value,
                      "Maximum order retrieved successfully", result.db))

get_order_for_new_column_steps(D, fault) ==
    connection(D, fault # "open", LET db == Yielded(D) IN
      LET begin_result == begin_transaction(db, fault # "begin")
      IN IF ~begin_result.success THEN BReturn(begin_result)
         ELSE
      LET result == execute_query(begin_result.db,
                        Stmt("FIND_ORDER", "Complete", 0), fault # "exec1")
      IN IF ~result.success THEN RollbackAndReturn(result)
         ELSE IF result.count = 0
         THEN RollbackAndFail(result.db, "Complete column not found")
         ELSE
      LET complete_order == result.value
          update_result == execute_query(result.db,
                               Stmt("INCREMENT", "Complete", 0), fault # "exec2")
      IN IF ~update_result.success THEN RollbackAndReturn(update_result)
         ELSE CommitAndReturn(update_result.db, fault, complete_order,
                              "Order value retrieved successfully"))

soft_delete_column_steps(D, column_name, scan, fault) ==
    IF column_name \in Sentinels
    THEN BResult(FALSE, 0, "Cannot delete fixed columns", D)
    ELSE connection(D, fault # "open", LET db == Yielded(D) IN
      LET begin_result == begin_transaction(db, fault # "begin")
      IN IF ~begin_result.success THEN BReturn(begin_result)
         ELSE
      LET order_result == execute_query(begin_result.db,
                              Stmt("FIND_ORDER", column_name, 0), fault # "exec1")
      IN IF ~order_result.success THEN RollbackAndReturn(order_result)
         ELSE IF order_result.count = 0
         THEN RollbackAndFail(order_result.db, "Column not found")
         ELSE
      LET current_order == order_result.value
          delete_result == execute_query(order_result.db,
                               Stmt("MARK_DELETED", column_name, 0),
                               fault # "exec2")
      IN IF ~delete_result.success THEN RollbackAndReturn(delete_result)
         ELSE
      LET reorder_result == execute_query(delete_result.db,
                                [Stmt("DECREMENT", "", current_order) EXCEPT
                                    !.scan = scan], fault # "exec3")
      IN IF ~reorder_result.success THEN RollbackAndReturn(reorder_result)
         ELSE CommitAndReturn(reorder_result.db, fault, 0,
                              "Column deleted successfully"))

\* -------------------------------- the Board Manager machine with faults
\* The same callers as in Spec; every call also draws the step at which the
\* driver fails.  An exception that escapes create_col ends that flow.
TxFaults(k) ==
    {"none", "open", "begin", "commit"} \cup {ExecFault(i) : i \in 1..k}

NoTxFaults == {"none", "open", "exec1"}

FaultRows == 4
FaultOrder == 4

FaultNames == {"Complete", "In Progress", "Review"}

FaultAddNames == {"Review", ""}

FaultOrders == 1..FaultOrder

BoardCall(op, name, order, fault, r) ==
    /\ schema' = r.db.schema
    /\ table' = r.db.rows
    /\ con' = ConOf(r.db)
    /\ res' = [op |-> op, name |-> name, order |-> order,
               success |-> r.success /\ ~r.raised, data |-> r.data,
               message |-> r.message]
    /\ ext' = [status |-> r.status, raised |-> r.raised, n |-> 0,
               stmt |-> NoStmt, fault |-> fault, preSchema |-> schema,
               preCon |-> con]
    /\ pre' = table

InitializeDatabaseCall(fault) ==
    /\ flow.pc = "idle"
    /\ BoardCall("initialize_database", "", 0, fault,
                 initialize_database_steps(DB(schema, table, con), fault))
    /\ UNCHANGED <<flow, ui>>

GetOrderForNewColumnCall(name, fault) ==
    /\ flow.pc = "idle"
    /\ Cardinality(table) < FaultRows
    /\ \A r \in table : r.Order < FaultOrder
    /\ LET r == get_order_for_new_column_steps(DB(schema, table, con), fault)
       IN /\ BoardCall("get_order_for_new_column", name, 0, fault, r)
          /\ flow' = IF r.success /\ ~r.raised
                     THEN [pc |-> "add_column", column_name |-> name,
                           new_order |-> r.data]
                     ELSE Idle
    /\ UNCHANGED ui

AddColumnCall(fault) ==
    /\ flow.pc = "add_column"
    /\ BoardCall("add_column", flow.column_name, flow.new_order, fault,
                 add_column_steps(DB(schema, table, con), flow.column_name,
                                  flow.new_order, DefaultColumnColor,
                                  DefaultTextColor, fault))
    /\ flow' = Idle
    /\ UNCHANGED ui

ReorderColumnCall(name, new_order, fault) ==
    /\ flow.pc = "idle"
    /\ BoardCall("reorder_column", name, new_order, fault,
                 reorder_column_steps(DB(schema, table, con), name, new_order,
                                      fault))
    /\ UNCHANGED <<flow, ui>>

SoftDeleteColumnCall(name, scan, fault) ==
    /\ flow.pc = "idle"
    /\ BoardCall("soft_delete_column", name, 0, fault,
                 soft_delete_column_steps(DB(schema, table, con), name, scan,
                                          fault))
    /\ UNCHANGED <<flow, ui>>

LoadColumnsCall(fault) ==
    /\ flow.pc = "idle"
    /\ BoardCall("load_columns", "", 0, fault,
                 load_columns_steps(DB(schema, table, con), fault))
    /\ UNCHANGED <<flow, ui>>

UpdateColumnColorCall(name, color_type, color, fault) ==
    /\ flow.pc = "idle"
    /\ BoardCall("update_column_color", name, 0, fault,
                 update_column_color_steps(DB(schema, table, con), name,
                                           color_type, color, fault))
    /\ UNCHANGED <<flow, ui>>

GetMaxOrderCall(fault) ==
    /\ flow.pc = "idle"
    /\ BoardCall("get_max_order", "", 0, fault,
                 get_max_order_steps(DB(schema, table, con), fault))
    /\ UNCHANGED <<flow, ui>>

NextFault ==
    \/ \E f \in TxFaults(5) : InitializeDatabaseCall(f)
    \/ \E name \in FaultAddNames, f \in TxFaults(2) :
          GetOrderForNewColumnCall(name, f)
    \/ \E f \in TxFaults(2) : AddColumnCall(f)
    \/ \E name \in FaultNames, o \in FaultOrders, f \in TxFaults(2) :
          ReorderColumnCall(name, o, f)
    \/ \E name \in FaultNames, scan \in ScanOrders, f \in TxFaults(3) :
          SoftDeleteColumnCall(name, scan, f)
    \/ \E f \in NoTxFaults : LoadColumnsCall(f)
    \/ \E name \in ColorNames, ct \in ColorTypes, c \in Colors,
          f \in TxFaults(1) : UpdateColumnColorCall(name, ct, c, f)
    \/ \E f \in NoTxFaults : GetMaxOrderCall(f)

SpecFault == Init /\ [][NextFault]_vars

\* ------------------------------------- Board Manager fault properties
\* the fault-free methods and the step-by-step ones agree when no step fails
StepsAgree ==
    (ext.fault = "none" /\ ~ext.raised) =>
        /\ LastOp({"initialize_database"}) =>
              LET r == initialize_database(ext.preSchema, pre)
              IN res.success = r.success /\ table = r.rows
        /\ LastOp({"add_column"}) =>
              LET r == add_column(ext.preSchema, pre, res.name, res.order,
                                  DefaultColumnColor, DefaultTextColor)
              IN res.success = r.success /\ table = r.rows
        /\ LastOp({"reorder_column"}) =>
              LET r == reorder_column(ext.preSchema, pre, res.name, res.order)
              IN res.success = r.success /\ table = r.rows
        /\ LastOp({"get_order_for_new_column"}) =>
              LET r == get_order_for_new_column(ext.preSchema, pre)
              IN res.success = r.success /\ table = r.rows
                 /\ (r.success => res.data = r.data)
        /\ (LastOp({"load_columns"}) /\ res.success) =>
              res.data = load_columns(pre)

\* C11: a failed initialize_database leaves nothing behind: whichever step
\* failed (table, index, one of the three inserts, commit), the committed
\* schema and rows are what they were before the call; on a database that is
\* already initialized it fails and the rows are unchanged; a successful
\* call commits the table with exactly the three default rows.
C11_InitializeAllOrNothing ==
    LastOp({"initialize_database"}) =>
        /\ ~res.success => ContentUnchanged
        /\ (ext.preSchema /\ ~ext.raised) =>
              ~res.success /\ ext.status = "ERROR" /\ table = pre
        /\ res.success => ~ext.preSchema /\ schema /\ table = FreshRows
        /\ (ext.fault \in {"begin", "exec1", "exec2", "exec3", "exec4",
                           "exec5", "commit"}) =>
              ~res.success /\ ext.status = "ERROR" /\ ~ext.raised

\* the second insert failed: the table and the first row were rolled back
C11_Witness ==
    /\ LastOp({"initialize_database"}) /\ ext.fault = "exec4"
    /\ ~ext.preSchema /\ ~res.success /\ ~schema /\ table = {}

\* C12: whenever add_column, get_order_for_new_column, reorder_column,
\* soft_delete_column or update_column_color returns success = False, the
\* committed content of Columns is exactly what it was before the call.
C12_FailureChangesNothing ==
    (LastOp({"add_column", "get_order_for_new_column", "reorder_column",
             "soft_delete_column", "update_column_color"})
        /\ ~ext.raised /\ ~res.success) => ContentUnchanged

\* the third statement of soft_delete_column failed after the first two
\* had marked an active column deleted inside the transaction
C12_Witness ==
    /\ LastOp({"soft_delete_column"}) /\ ~res.success /\ ~ext.raised
    /\ ext.fault \in {"exec3", "commit"} /\ HasActive(pre, res.name)
    /\ table = pre

\* C13: no Board Manager operation lets an exception escape to its caller,
\* also when the connection cannot be opened at the start of the operation.
C13_NoExceptionEscapes ==
    LastOp({"initialize_database", "add_column", "get_order_for_new_column",
            "reorder_column", "soft_delete_column", "load_columns",
            "update_column_color", "get_max_order"}) => ~ext.raised

\* C16: on return from every Board Manager operation, successful or failed,
\* the connection is closed and no transaction is open.
C16_ClosedOnReturn ==
    /\ ~con.isOpen /\ ~con.inTx
    /\ LastOp({"initialize_database", "add_column",
               "get_order_for_new_column", "reorder_column",
               "soft_delete_column", "load_columns", "update_column_color",
               "get_max_order"}) => ~ext.preCon.isOpen /\ ~ext.preCon.inTx

\* an early return out of the with block, inside a begun transaction
C16_Witness ==
    /\ LastOp({"get_order_for_new_column"}) /\ ~res.success /\ ~ext.raised
    /\ ext.fault = "exec2" /\ HasActive(pre, "Complete")
    /\ ~con.isOpen /\ ~con.inTx


\* -------------------------------------- further Board Manager properties
\* the table add_column started from: create_col's get_order_for_new_column
\* has already been committed on top of pre
BeforeAdd == get_order_for_new_column(schema, pre).rows

\* C21: no two active rows have the same Name, and add_column with the name
\* of an active column fails and stores nothing.
C21_ActiveNamesUnique ==
    /\ \A r1, r2 \in Active(table) : r1.Name = r2.Name => r1 = r2
    /\ (res.op = "add_column" /\ HasActive(BeforeAdd, res.name)) =>
          ~res.success /\ table = BeforeAdd

C21_Witness ==
    /\ res.op = "add_column" /\ res.name = "Review" /\ ~res.success
    /\ HasActive(BeforeAdd, "Review") /\ table = BeforeAdd
    /\ \A r \in BeforeAdd : r.Order # res.order

\* C22: no two rows, active or soft-deleted, hold the same Order; an
\* add_column or reorder_column onto an Order another row holds fails and
\* changes nothing, and a soft_delete_column whose decrement step fails is
\* rolled back whole.
C22_OrderUniqueOverAllRows ==
    /\ \A r1, r2 \in table : r1.Order = r2.Order => r1 = r2
    /\ schema =>
          \A name \in Names, order \in Orders(table) :
              LET r == add_column(schema, table, name, order,
                                  DefaultColumnColor, DefaultTextColor)
              IN ~r.success /\ r.rows = table
    /\ (res.op = "reorder_column"
          /\ \E r \in RowsNamed(pre, res.name), x \in pre :
                x.id # r.id /\ x.Order = res.order) =>
          ~res.success /\ table = pre
    /\ (res.op = "soft_delete_column" /\ ~res.success) => table = pre

\* the decrement of an active column onto the Order a soft-deleted row keeps
C22_Witness ==
    /\ res.op = "soft_delete_column" /\ ~res.success /\ table = pre
    /\ res.message = "UNIQUE constraint failed: Columns.Order"
    /\ HasActive(pre, res.name)
    /\ \E r \in table : r.deletion_date # NULL

\* C23: soft_delete_column on a name without an active row returns
\* success = False with the message "Column not found" and leaves the table
\* unchanged, so deleting the same column twice fails the second time.
C23_NotFoundReported ==
    (res.op = "soft_delete_column" /\ schema /\ ~HasActive(pre, res.name)) =>
        /\ ~res.success /\ res.message = "Column not found" /\ table = pre
        /\ res.message # NoSuchTable(pre).message
        /\ res.message # "UNIQUE constraint failed: Columns.Order"

\* the second delete of a column that was soft-deleted before
C23_Witness ==
    /\ res.op = "soft_delete_column" /\ res.message = "Column not found"
    /\ \E r \in pre : r.Name = res.name /\ r.deletion_date # NULL
    /\ ~HasActive(pre, res.name)

\* C26: once a row is soft-deleted no later operation changes it.
C26_DeletedRowsFrozen ==
    [][\A r \in table : r.deletion_date # NULL => r \in table']_vars

\* C27: every step leaves the Order of "Complete" unchanged or raises it by
\* exactly 1, and only a successful get_order_for_new_column raises it.
C27_CompleteNeverDecreases ==
    [][schema =>
          \/ CompleteOrder(table') = CompleteOrder(table)
          \/ /\ CompleteOrder(table') = CompleteOrder(table) + 1
             /\ res'.op = "get_order_for_new_column" /\ res'.success]_vars

\* a column left of "Complete" was soft-deleted and "Complete" stayed
C27_Witness ==
    /\ res.op = "soft_delete_column" /\ res.success
    /\ CompleteOrder(pre) > 3 /\ CompleteOrder(table) = CompleteOrder(pre)

\* C24: update_column_color with a color type other than "ColumnColor" or
\* "TextColor", and add_column with an empty name, return success = False
\* before the connection is opened: whatever the driver would do, nothing is
\* raised, no statement runs, and the database and connection are untouched.
C24_ValidationBeforeDatabase ==
    LET D == DB(schema, table, con)
    IN /\ \A f \in BoardFaults, name \in FaultNames, c \in Colors,
             ct \in ColorTypes \ {"ColumnColor", "TextColor"} :
             LET r == update_column_color_steps(D, name, ct, c, f)
             IN ~r.success /\ ~r.raised /\ r.db = D
                /\ r.message = "Invalid color type specified"
       /\ \A f \in BoardFaults, o \in FaultOrders :
             LET r == add_column_steps(D, "", o, DefaultColumnColor,
                                       DefaultTextColor, f)
             IN ~r.success /\ ~r.raised /\ r.db = D
                /\ r.message = "Column name cannot be empty"
       /\ (LastOp({"add_column"}) /\ res.name = "") =>
             ~res.success /\ ~ext.raised /\ ContentUnchanged
       /\ (LastOp({"update_column_color"})
             /\ res.message = "Invalid color type specified") =>
             ~res.success /\ ~ext.raised /\ ContentUnchanged

\* a rejected color type on a call whose connection could not have opened
C24_Witness ==
    /\ LastOp({"update_column_color"}) /\ ext.fault = "open"
    /\ res.message = "Invalid color type specified" /\ ~res.success
    /\ ~ext.raised /\ schema /\ table # {}

\* ---------------------------------------------------------------- the UI
\* The desktop application: the controller (main.py), the File and Columns
\* menus (menu_bar.py), the tab manager with its column container (tabs.py)
\* and the column widgets (widgets.py).  Every handler is taken whole, over
\* the Board Manager's calls without driver faults.  A path of ui.files that
\* holds NoFile is a database file without the Columns table.
MaxWidgets == 7
MaxManagers == 2
UIRows == 4
ColumnWidth == 300
Spacing == 10

\* the names the New Column dialog returns
UINames == {"Review", "In Progress"}

UIReplies == {"Yes", "No"}

KanbanDatabaseManager(n, db_path) == [id |-> n, db_path |-> db_path]

KanbanColumn(name, db_manager) == [name |-> name, db_manager |-> db_manager]

\* the handler's outcome is recorded with the state it leaves
Done(U, op, ok, raised) == [U EXCEPT !.op = op, !.ok = ok, !.raised = raised]

\* the database file a manager works on
FileOf(U, manager) == U.files[manager.db_path]

WriteFile(U, manager, r) == [U EXCEPT !.files[manager.db_path].rows = r.rows]

refresh_column_order(U) ==
    IF U.db_manager = None THEN U
    ELSE LET f == FileOf(U, U.db_manager)
         IN IF ~f.schema THEN U
            ELSE [U EXCEPT !.column_order =
                     [n \in {r.Name : r \in Active(f.rows)} |->
                         (CHOOSE r \in Active(f.rows) : r.Name = n).Order]]

\* KanbanTabManager.add_column
tabs_add_column(U, name) ==
    refresh_column_order(
        [U EXCEPT !.column_layout = Append(@, KanbanColumn(name, U.db_manager))])

\* for name, ... in load_result.data: add_column(name, ...)
RECURSIVE AddColumns(_, _)
AddColumns(U, names) ==
    IF names = <<>> THEN U
    ELSE AddColumns(tabs_add_column(U, Head(names)), Tail(names))

\* the setter of KanbanTabManager.db_manager
set_db_manager(U, manager) ==
    LET V == [U EXCEPT !.db_manager = manager]
    IN IF manager # None THEN refresh_column_order(V) ELSE V

clear_columns(U) == [U EXCEPT !.column_layout = <<>>]

load_kanban_board(U) ==
    IF U.kanban_db = None THEN U
    ELSE LET f == FileOf(U, U.kanban_db)
         IN IF ~f.schema THEN U
            ELSE AddColumns(U, load_columns(f.rows))

create_database(U, db_path) ==
    LET manager == KanbanDatabaseManager(U.made + 1, db_path)
        f == U.files[db_path]
        result == initialize_database(f.schema, f.rows)
        V == [U EXCEPT !.made = @ + 1, !.kanban_db = manager,
                       !.files[db_path] = [schema |-> f.schema \/ result.success,
                                           rows |-> result.rows]]
    IN IF result.success
       THEN [load_kanban_board(set_db_manager(V, manager)) EXCEPT !.ok = TRUE]
       ELSE [V EXCEPT !.ok = FALSE]

\* FileMenu.new_db, the dialog accepted with db_path
new_db(U, db_path) ==
    LET V == create_database(U, db_path) IN Done(V, "new_db", V.ok, FALSE)

\* FileMenu.close_db: the controller has no method close_database, so the
\* call raises AttributeError as soon as a database is open
file_close_db(U) ==
    IF U.kanban_db = None THEN Done(U, "close_db", FALSE, FALSE)
    ELSE Done(U, "close_db", FALSE, TRUE)

\* FileMenu.open_db, the question answered with reply and the dialog accepted
\* with db_path
file_open_db(U, reply, db_path) ==
    IF U.kanban_db # None /\ reply = "No" THEN Done(U, "open_db", FALSE, FALSE)
    ELSE IF U.kanban_db # None /\ file_close_db(U).raised
    THEN Done(U, "open_db", FALSE, TRUE)
    ELSE LET manager == KanbanDatabaseManager(U.made + 1, db_path)
             V == [U EXCEPT !.made = @ + 1, !.kanban_db = manager]
         IN Done(load_kanban_board(V), "open_db", TRUE, FALSE)

\* ColumnMenu.create_col, the dialog accepted with column_name
create_col(U, column_name) ==
    IF U.kanban_db = None THEN Done(U, "create_col", FALSE, FALSE)
    ELSE LET f == FileOf(U, U.kanban_db)
             result == get_order_for_new_column(f.schema, f.rows)
         IN IF ~result.success
            THEN Done(WriteFile(U, U.kanban_db, result), "create_col", FALSE, FALSE)
            ELSE LET added == add_column(f.schema, result.rows, column_name,
                                         result.data, DefaultColumnColor,
                                         DefaultTextColor)
                     V == WriteFile(U, U.kanban_db, added)
                 IN IF added.success
                    THEN Done(load_kanban_board(V), "create_col", TRUE, FALSE)
                    ELSE Done(V, "create_col", FALSE, FALSE)

\* KanbanTabManager._show_context_menu, "Create New Column" chosen and the
\* dialog accepted with column_name
show_context_menu(U, column_name) ==
    IF U.db_manager = None THEN Done(U, "show_context_menu", FALSE, FALSE)
    ELSE LET f == FileOf(U, U.db_manager)
             result == get_order_for_new_column(f.schema, f.rows)
         IN IF ~result.success
            THEN Done(WriteFile(U, U.db_manager, result),
                      "show_context_menu", FALSE, FALSE)
            ELSE LET added == add_column(f.schema, result.rows, column_name,
                                         result.data, DefaultColumnColor,
                                         DefaultTextColor)
                     V == WriteFile(U, U.db_manager, added)
                 IN IF added.success
                    THEN Done(AddColumns(clear_columns(V), load_columns(added.rows)),
                              "show_context_menu", TRUE, FALSE)
                    ELSE Done(V, "show_context_menu", FALSE, FALSE)

\* KanbanColumn._delete_column of the i-th widget of the board, the
\* question answered with Yes
delete_column(U, i, scan) ==
    LET self == U.column_layout[i]
    IN IF self.name \in Sentinels \/ self.db_manager = None
       THEN Done(U, "delete_column", FALSE, FALSE)
       ELSE LET f == FileOf(U, self.db_manager)
                result == soft_delete_column(f.schema, f.rows, self.name, scan)
                V == WriteFile(U, self.db_manager, result)
            IN IF result.success
               THEN Done(AddColumns(clear_columns(V), load_columns(result.rows)),
                         "delete_column", TRUE, FALSE)
               ELSE Done(V, "delete_column", FALSE, FALSE)

\* KanbanColumn._change_header_color of the i-th widget, the colour dialog
\* accepted with color
change_header_color(U, i, color) ==
    LET self == U.column_layout[i]
    IN IF self.db_manager = None
       THEN Done(U, "change_header_color", FALSE, FALSE)
       ELSE LET f == FileOf(U, self.db_manager)
                result == update_column_color(f.schema, f.rows, self.name,
                                              "ColumnColor", color)
            IN Done(WriteFile(U, self.db_manager, result),
                    "change_header_color", result.success, FALSE)

\* ------------------------------------------------- the drag bookkeeping
update_column_positions(U) ==
    [U EXCEPT !.column_positions =
        [i \in 1..Len(U.column_layout) |->
            [pos |-> (i - 1) * (ColumnWidth + Spacing), width |-> ColumnWidth,
             name |-> U.column_layout[i].name]]]

\* the loop of calculate_new_order over column_positions from index i on
\* (i counts from 1, so the code's i + 1 is i here)
RECURSIVE TargetIndex(_, _, _, _, _)
TargetIndex(positions, i, x_pos, column_name, target_index) ==
    IF i > Len(positions) THEN target_index
    ELSE IF positions[i].name = column_name
    THEN TargetIndex(positions, i + 1, x_pos, column_name, target_index)
    ELSE IF 2 * x_pos > 2 * positions[i].pos + positions[i].width
    THEN TargetIndex(positions, i + 1, x_pos, column_name, i)
    ELSE target_index

\* faulty variant: the target index is not kept between the fixed columns
ClampTarget_none(order, target_index) == target_index

\* the target index kept right of "Ready to Start" and left of "Complete"
ClampTarget(order, target_index) ==
    IF "Ready to Start" \in DOMAIN order /\ target_index <= order["Ready to Start"]
    THEN order["Ready to Start"] + 1
    ELSE IF "Complete" \in DOMAIN order /\ target_index >= order["Complete"]
    THEN order["Complete"] - 1
    ELSE target_index

calculate_new_order(U, x_pos, column_name) ==
    IF U.column_positions = <<>> THEN U
    ELSE LET order == U.column_order
             new_order == ClampTarget(order,
                              TargetIndex(U.column_positions, 1, x_pos,
                                          column_name, 0))
             current_order == IF column_name \in DOMAIN order
                              THEN order[column_name] ELSE 0
         IN IF current_order = 0 \/ new_order = current_order THEN U
            ELSE [U EXCEPT !.column_order =
                    [col \in DOMAIN order |->
                        IF col = column_name THEN new_order
                        ELSE IF new_order > current_order
                        THEN (IF current_order < order[col] /\ order[col] <= new_order
                              THEN order[col] - 1 ELSE order[col])
                        ELSE (IF new_order <= order[col] /\ order[col] < current_order
                              THEN order[col] + 1 ELSE order[col])]]

\* dragEnterEvent with the mime text column_name
dragEnterEvent(U, column_name) ==
    IF column_name \notin Sentinels
    THEN Done(update_column_positions(
                  [U EXCEPT !.dragged_column = column_name,
                            !.original_column_order =
                                [has |-> TRUE, dict |-> U.column_order],
                            !.drag = TRUE, !.at_enter = U.column_order,
                            !.moved = FALSE]),
              "dragEnterEvent", TRUE, FALSE)
    ELSE Done(U, "dragEnterEvent", FALSE, FALSE)

dragMoveEvent(U, x_pos, column_name) ==
    IF column_name \notin Sentinels
    THEN LET V == calculate_new_order(U, x_pos, column_name)
         IN Done([V EXCEPT !.moved = @ \/ V.column_order # U.column_order],
                 "dragMoveEvent", TRUE, FALSE)
    ELSE Done(U, "dragMoveEvent", FALSE, FALSE)

\* faulty variant: the computed order is kept on drop
dropEvent_keep(U) ==
    Done([U EXCEPT !.dragged_column = NoName, !.drag = FALSE],
         "dropEvent", TRUE, FALSE)

dropEvent(U) ==
    Done([U EXCEPT !.column_order = IF U.original_column_order.has
                                    THEN U.original_column_order.dict ELSE @,
                   !.dragged_column = NoName, !.drag = FALSE],
         "dropEvent", TRUE, FALSE)

\* ------------------------------------------------------- the UI machine
\* the database files found on disk when the application starts
ExistingFiles == {NoFile, [schema |-> TRUE, rows |-> FreshRows]}

DisplayedNames(U) == {U.column_layout[i].name : i \in DOMAIN U.column_layout}

\* a create may add a row and raise an Order
RoomIn(f) == Cardinality(f.rows) < UIRows /\ \A r \in f.rows : r.Order <= UIRows

UIStep(U) ==
    /\ Len(U.column_layout) <= MaxWidgets
    /\ ui' = U
    /\ UNCHANGED <<schema, table, flow, res, pre, con, ext>>

InitUI ==
    /\ schema = FALSE
    /\ table = {}
    /\ flow = Idle
    /\ res = [op |-> "none", name |-> "", order |-> 0, success |-> FALSE,
              data |-> 0, message |-> ""]
    /\ pre = {}
    /\ con = Closed
    /\ ext = NoExt
    /\ \E files \in [Paths -> ExistingFiles] : ui = [NoUI EXCEPT !.files = files]

FileNew(db_path) ==
    /\ ui.made < MaxManagers
    /\ UIStep(new_db(ui, db_path))

FileOpen(reply, db_path) ==
    /\ ui.made < MaxManagers
    /\ UIStep(file_open_db(ui, reply, db_path))

FileClose ==
    /\ UIStep(file_close_db(ui))

CreateCol(column_name) ==
    /\ ui.kanban_db # None => RoomIn(FileOf(ui, ui.kanban_db))
    /\ UIStep(create_col(ui, column_name))

ShowContextMenu(column_name) ==
    /\ ui.db_manager # None => RoomIn(FileOf(ui, ui.db_manager))
    /\ UIStep(show_context_menu(ui, column_name))

DeleteColumn(i, scan) ==
    /\ i \in DOMAIN ui.column_layout
    /\ UIStep(delete_column(ui, i, scan))

ChangeHeaderColor(i, color) ==
    /\ i \in DOMAIN ui.column_layout
    /\ ui.column_layout[i].name \in ColorNames
    /\ UIStep(change_header_color(ui, i, color))

NextUI ==
    \/ \E db_path \in Paths : FileNew(db_path)
    \/ \E reply \in UIReplies, db_path \in Paths : FileOpen(reply, db_path)
    \/ FileClose
    \/ \E column_name \in UINames : CreateCol(column_name)
    \/ \E column_name \in UINames : ShowContextMenu(column_name)
    \/ \E i \in 1..MaxWidgets, scan \in ScanOrders : DeleteColumn(i, scan)
    \/ \E i \in 1..MaxWidgets, color \in Colors : ChangeHeaderColor(i, color)

SpecUI == InitUI /\ [][NextUI]_vars

\* ------------------------------------------------------ the drag machine
\* A drag session over the column container.  The handlers read the board
\* and the container's column_order and nothing else, so the machine starts
\* from any board of up to MaxDragWidgets widgets over a database whose
\* active columns carry pairwise distinct orders with the fixed columns at
\* the two ends (opened = FALSE: after File > New, column_order read from
\* the database), or over no manager at all (opened = TRUE: after
\* File > Open, column_order empty).
MaxDragWidgets == 3
MaxDragOrder == 4

DragNames == {"Ready to Start", "In Progress", "Review", "Complete"}

DragOrders ==
    {f \in UNION {[S \cup Sentinels -> 1..MaxDragOrder] :
                     S \in SUBSET (DragNames \ Sentinels)} :
        /\ \A n, m \in DOMAIN f : f[n] = f[m] => n = m
        /\ \A n \in DOMAIN f : f["Ready to Start"] <= f[n] /\ f[n] <= f["Complete"]}

DragBoards == UNION {[1..k -> DragNames] : k \in 0..MaxDragWidgets}

\* a Columns table whose active rows carry the orders f
TableOf(f) ==
    {[id |-> f[n], Name |-> n, Order |-> f[n], ColumnColor |-> DefaultColumnColor,
      TextColor |-> DefaultTextColor, deletion_date |-> NULL] : n \in DOMAIN f}

\* the cursor positions of a drag: left of everything, and on and just past
\* the middle of every column
XPositions(U) ==
    {0} \cup UNION {{p.pos + p.width \div 2, p.pos + p.width \div 2 + 1} :
                       p \in {U.column_positions[i] :
                                 i \in DOMAIN U.column_positions}}

InitDrag ==
    /\ schema = FALSE
    /\ table = {}
    /\ flow = Idle
    /\ res = [op |-> "none", name |-> "", order |-> 0, success |-> FALSE,
              data |-> 0, message |-> ""]
    /\ pre = {}
    /\ con = Closed
    /\ ext = NoExt
    /\ \E f \in DragOrders, board \in DragBoards, opened \in BOOLEAN :
          LET manager == KanbanDatabaseManager(1, "a.db")
              shown == IF opened THEN None ELSE manager
          IN ui = refresh_column_order(
                     [NoUI EXCEPT !.files["a.db"] = [schema |-> TRUE,
                                                    rows |-> TableOf(f)],
                                  !.made = 1, !.kanban_db = manager,
                                  !.db_manager = shown,
                                  !.column_layout =
                                      [i \in DOMAIN board |->
                                          KanbanColumn(board[i], shown)]])

DragEnter(column_name) ==
    /\ ~ui.drag
    /\ column_name \in DisplayedNames(ui)
    /\ UIStep(dragEnterEvent(ui, column_name))

DragMove(x_pos) ==
    /\ ui.drag
    /\ UIStep(dragMoveEvent(ui, x_pos, ui.dragged_column))

Drop ==
    /\ ui.drag
    /\ UIStep(dropEvent(ui))

\* the drag leaves the container: no handler runs
DragLeave ==
    /\ ui.drag
    /\ UIStep(Done([ui EXCEPT !.drag = FALSE], "dragLeaveEvent", FALSE, FALSE))

NextDrag ==
    \/ \E column_name \in DragNames : DragEnter(column_name)
    \/ \E x_pos \in XPositions(ui) : DragMove(x_pos)
    \/ Drop
    \/ DragLeave

SpecDrag == InitDrag /\ [][NextDrag]_vars

\* ----------------------------------------------------- drag properties
\* pairwise distinct orders with "Ready to Start" lowest and "Complete"
\* highest
WellFormed(f) ==
    /\ Sentinels \subseteq DOMAIN f
    /\ \A n, m \in DOMAIN f : f[n] = f[m] => n = m
    /\ \A n \in DOMAIN f : f["Ready to Start"] <= f[n] /\ f[n] <= f["Complete"]

\* C25: a drag gesture (dragEnterEvent, dragMoveEvent steps, dropEvent)
\* never writes to the database, and after dropEvent column_order is the
\* column_order that existed at dragEnterEvent and dragged_column is None.
C25_DragIsDiscarded ==
    [][/\ ui'.files = ui.files
       /\ ui'.op = "dropEvent" =>
             /\ ui'.column_order = ui'.at_enter
             /\ ui'.dragged_column = NoName]_vars

\* a drop after moves that had changed column_order
C25_Witness ==
    /\ ui.op = "dropEvent"
    /\ ui.moved
    /\ ui.column_order = ui.at_enter
    /\ ui.dragged_column = NoName
    /\ \E p \in Paths : ui.files[p].rows # {}

\* C30: during a drag of a non-sentinel column that started from a
\* column_order with pairwise distinct orders, "Ready to Start" lowest and
\* "Complete" highest, every calculate_new_order step leaves column_order
\* with the same names, pairwise distinct orders, the orders of the two fixed
\* columns unchanged and the dragged column's order strictly between them.
C30_DragKeepsOrderWellFormed ==
    (ui.drag /\ ui.dragged_column \notin Sentinels /\ WellFormed(ui.at_enter)) =>
        /\ DOMAIN ui.column_order = DOMAIN ui.at_enter
        /\ \A n, m \in DOMAIN ui.column_order :
              ui.column_order[n] = ui.column_order[m] => n = m
        /\ \A n \in Sentinels : ui.column_order[n] = ui.at_enter[n]
        /\ ui.dragged_column \in DOMAIN ui.at_enter =>
              /\ ui.column_order["Ready to Start"] < ui.column_order[ui.dragged_column]
              /\ ui.column_order[ui.dragged_column] < ui.column_order["Complete"]

\* a move that put the dragged column in another column's place
C30_Witness ==
    /\ ui.drag
    /\ ui.op = "dragMoveEvent"
    /\ WellFormed(ui.at_enter)
    /\ ui.dragged_column \in DOMAIN ui.at_enter
    /\ \E n \in DOMAIN ui.at_enter \ (Sentinels \cup {ui.dragged_column}) :
          /\ ui.column_order[ui.dragged_column] = ui.at_enter[n]
          /\ ui.column_order[n] # ui.at_enter[n]

\* ------------------------------------------------------- UI properties
\* the names of the widgets on the board, left to right
Shown(U) == [i \in DOMAIN U.column_layout |-> U.column_layout[i].name]

\* C28: after a successful File > New, a successful create-column action
\* (Columns menu or board context menu) and a successful column deletion,
\* the widgets on the board, left to right, are exactly the names
\* load_columns() returns for the current database, each name once.
C28_BoardShowsLoadedColumns ==
    (ui.ok /\ ui.op \in {"new_db", "create_col", "show_context_menu",
                         "delete_column"}) =>
        Shown(ui) = load_columns(FileOf(ui, ui.kanban_db).rows)

\* C29: after a successful File > New or File > Open, the controller's
\* kanban_db, the tab manager's db_manager and the db_manager of every
\* widget on the board are the same database manager.
C29_OneManagerEverywhere ==
    (ui.ok /\ ui.op \in {"new_db", "open_db"}) =>
        /\ ui.db_manager = ui.kanban_db
        /\ \A i \in DOMAIN ui.column_layout :
              ui.column_layout[i].db_manager = ui.kanban_db

====
